---- MODULE Spec2Model ----
(***************************************************************************)
(* E-wallet demo: the ledger (users and transactions tables of ewallet.db), *)
(* the session and the key-dispatch loop, in its two implementations:       *)
(*   - App (src/src/app.rs), driven by main (src/src/main.rs);              *)
(*   - AppController (src/src/controllers/app_controller.rs) over the       *)
(*     User and Transaction repositories (src/src/models).                  *)
(*                                                                         *)
(* A string is a sequence of one-character strings (<<"a", "b">> is "ab"),  *)
(* an Option<T> is a sequence of length at most one.  Amounts and balances *)
(* are the integer-valued f64 the keyboard inputs below parse to (exact in *)
(* f64 well beyond the sums reached here).                                  *)
(***************************************************************************)
EXTENDS Integers, Sequences, FiniteSets, TLC

VARIABLES
    variant,            \* which implementation runs: "App" or "AppController"
    pc,                 \* "running", "exited" (quit), "error" (main returned Err)
                        \* or "panicked" (an unwrap on None)
    users,              \* table users: username -> balance
    transactions,       \* table transactions: rows in insertion (rowid) order
    current_state,      \* AppState
    input,              \* String
    transfer_recipient, \* Option<String>
    current_user,       \* Option<String>
    messages,           \* Vec<(String, Instant)>, the Instant kept as its age
    clock,              \* wall-clock second, counted from the start of the run;
                        \* a row written now has it as its timestamp
    ret                 \* the last ledger call the handler made, and its Result

vars == <<variant, pc, users, transactions, current_state, input,
          transfer_recipient, current_user, messages, clock, ret>>

-----------------------------------------------------------------------------
(* Bounds and program constants *)

\* Seconds a run of the loop is followed for: an event that would come
\* later is not taken.
MaxClock == 75

\* Rows the transactions table may hold where no clock ends the run (events
\* that take no time, calls of a client): a step that would write past it is
\* not taken.
MaxLog == 3

\* message_timeout: Duration::from_secs(5)
MESSAGE_TIMEOUT == 5

\* LIMIT 10 of App::get_transactions
HISTORY_LIMIT == 10

-----------------------------------------------------------------------------
(* Option, strings *)

None == <<>>
Some(x) == <<x>>
is_none(o) == o = <<>>
unwrap(o) == o[1]

EmptyString == <<>>

\* String::pop: drops the last character, nothing on the empty string.
pop(s) == IF s = <<>> THEN s ELSE SubSeq(s, 1, Len(s) - 1)

Digits == {"0", "1", "2", "3", "4", "5", "6", "7", "8", "9"}
DigitValue(c) ==
    CASE c = "0" -> 0 [] c = "1" -> 1 [] c = "2" -> 2 [] c = "3" -> 3
      [] c = "4" -> 4 [] c = "5" -> 5 [] c = "6" -> 6 [] c = "7" -> 7
      [] c = "8" -> 8 [] c = "9" -> 9

\* The characters with the Unicode property White_Space, which str::trim
\* drops: tab, line feed, vertical tab, form feed, carriage return, space,
\* and beyond ASCII U+0085, U+00A0, U+1680, U+2000 to U+200A, U+2028,
\* U+2029, U+202F, U+205F and U+3000.  A character that a string constant
\* here cannot hold (one beyond U+00FF) is written by its code point.
White_Space ==
    {"\t", "\n", "", "\f", "\r", " ", "", " ", "U+1680",
     "U+2000", "U+2001", "U+2002", "U+2003", "U+2004", "U+2005", "U+2006",
     "U+2007", "U+2008", "U+2009", "U+200A", "U+2028", "U+2029", "U+202F",
     "U+205F", "U+3000"}

\* str::trim_matches: s without the characters of C at its two ends
trim_matches(s, C) ==
    LET kept == {i \in 1..Len(s) : s[i] \notin C}
    IN  IF kept = {} THEN EmptyString
        ELSE SubSeq(s, CHOOSE i \in kept : \A j \in kept : i <= j,
                       CHOOSE i \in kept : \A j \in kept : j <= i)

\* str::trim
trim(s) == trim_matches(s, White_Space)

RECURSIVE DecimalValue(_)
DecimalValue(s) ==
    IF s = <<>> THEN 0 ELSE 10 * DecimalValue(pop(s)) + DigitValue(s[Len(s)])

AllDigits(s) == s # <<>> /\ \A i \in 1..Len(s) : s[i] \in Digits

\* str::parse::<f64> on the strings the keyboard below can produce: an
\* optional sign and decimal digits; anything else is Err.
\* The result is [ok |-> BOOLEAN, value |-> the number].
parse_f64(s) ==
    IF AllDigits(s) THEN [ok |-> TRUE, value |-> DecimalValue(s)]
    ELSE IF s # <<>> /\ Head(s) \in {"-", "+"} /\ AllDigits(Tail(s))
         THEN [ok |-> TRUE,
               value |-> IF Head(s) = "-" THEN 0 - DecimalValue(Tail(s))
                         ELSE DecimalValue(Tail(s))]
    ELSE [ok |-> FALSE, value |-> 0]

\* f64: the amounts and balances are the integers the keyboard can produce
\* plus NaN, which an f64 argument can also be.  NaN is a code outside the
\* range the numbers of the model reach.
NaN == 0 - 1000
is_nan(x) == x = NaN

\* f64 `+` and `-`: NaN as soon as one operand is NaN
f64_add(x, y) == IF is_nan(x) \/ is_nan(y) THEN NaN ELSE x + y
f64_sub(x, y) == IF is_nan(x) \/ is_nan(y) THEN NaN ELSE x - y

\* A REAL NOT NULL column: SQLite binds a NaN as NULL, so the statement
\* that writes one fails on the constraint.
NotNullFails(x) == is_nan(x)

\* f64 `>=` and `<`: false as soon as one operand is NaN
f64_ge(x, y) == ~is_nan(x) /\ ~is_nan(y) /\ x >= y
f64_lt(x, y) == ~is_nan(x) /\ ~is_nan(y) /\ x < y

-----------------------------------------------------------------------------
(* Keyboard and environment inputs *)

\* KeyCode values the loop distinguishes; "Other" is any key of the `_` arms.
Enter == [code |-> "Enter", c |-> ""]
Backspace == [code |-> "Backspace", c |-> ""]
Esc == [code |-> "Esc", c |-> ""]
OtherKey == [code |-> "Other", c |-> ""]
Char(c) == [code |-> "Char", c |-> c]

\* Characters the user presses.
KeyChars == {"1", "2", "3", "4", "5", "q", "a", "b", "-"}

\* What the user types at a username prompt and at an amount prompt.
NameInputs == {<<"a">>, <<"b">>}
AmountInputs == {<<"1">>, <<"2">>, <<"-", "1">>}

IsPrefix(p, s) == Len(p) <= Len(s) /\ SubSeq(s, 1, Len(p)) = p

\* Seconds between two events of the terminal.
Delays == {MESSAGE_TIMEOUT}

\* Seconds that end between the two clock readings of one transfer
Lags == {0, 1}

\* The statement of a handler that fails with a storage error, counted in
\* execution order; 0 is no failure.
Faults == 0..8

-----------------------------------------------------------------------------
(* The program state a handler works on *)

state ==
    [users |-> users, transactions |-> transactions,
     current_state |-> current_state, input |-> input,
     transfer_recipient |-> transfer_recipient, current_user |-> current_user,
     messages |-> messages, ret |-> ret]

NoCall == [call |-> "none", value |-> "none"]
Call(name, value) == [call |-> name, value |-> value]

Text(fmt, args) == [fmt |-> fmt, args |-> args]

\* App::add_message / AppController::add_message
add_message(st, text) ==
    [st EXCEPT !.messages = Append(@, [text |-> text, age |-> 0])]

\* clear_expired_messages: retain the entries younger than message_timeout
clear_expired_messages(st) ==
    [st EXCEPT !.messages = SelectSeq(@, LAMBDA m : m.age < MESSAGE_TIMEOUT)]

\* d seconds pass: every Instant is d seconds older.
Elapse(st, d) ==
    [st EXCEPT !.messages = [i \in 1..Len(@) |-> [@[i] EXCEPT !.age = @ + d]]]

\* A Result<..> that is Err(storage error): propagated by `?`.
Failed(st, name) == [st EXCEPT !.ret = Call(name, "Err")]
IsErr(st) == st.ret.value = "Err"

\* Option::unwrap on None: the thread panics in the call `name`.
Panicked(st, name) == [st EXCEPT !.ret = Call(name, "panic")]
IsPanic(st) == st.ret.value = "panic"

-----------------------------------------------------------------------------
(* Table rows *)

\* The rowid SQLite gives a row inserted with no id: one more than the
\* largest in the table, 1 in an empty table.
NextRowid(st) ==
    IF st.transactions = <<>> THEN 1
    ELSE LET ids == {st.transactions[i].id : i \in 1..Len(st.transactions)}
         IN  (CHOOSE m \in ids : \A k \in ids : k <= m) + 1

\* Mutant of Row: the two balance snapshots are bound the wrong way round.
Row_Swapped(st, username, type, amount, recipient, sender, previous, new, now) ==
    [id |-> NextRowid(st), username |-> username,
     transaction_type |-> type, amount |-> amount,
     recipient |-> recipient, sender |-> sender,
     previous_balance |-> new, new_balance |-> previous, timestamp |-> now]

\* A row of transactions.  id is the INTEGER PRIMARY KEY the store assigns,
\* timestamp the second it was written in.
Row(st, username, type, amount, recipient, sender, previous, new, now) ==
    [id |-> NextRowid(st), username |-> username,
     transaction_type |-> type, amount |-> amount,
     recipient |-> recipient, sender |-> sender,
     previous_balance |-> previous, new_balance |-> new, timestamp |-> now]

\* Mutant of UpdateBalance: the UPDATE has no WHERE clause.
UpdateBalance_NoWhere(st, username, balance) ==
    [st EXCEPT !.users = [u \in DOMAIN @ |-> balance]]

\* UPDATE users SET balance = ? WHERE username = ?  (no row: nothing changes)
UpdateBalance(st, username, balance) ==
    IF username \in DOMAIN st.users
    THEN [st EXCEPT !.users = [@ EXCEPT ![username] = balance]]
    ELSE st

\* Mutant of InsertRow: the new row takes the place of the oldest one.
InsertRow_Rotate(st, row) ==
    [st EXCEPT !.transactions = IF @ = <<>> THEN <<row>> ELSE Append(Tail(@), row)]

InsertRow(st, row) == [st EXCEPT !.transactions = Append(@, row)]

-----------------------------------------------------------------------------
(* App (src/src/app.rs).  `fault` is the statement that fails, 0 for none. *)

\* App::get_balance, the value of its Ok
\* Mutant of App_get_balance: the balance is read without looking at the
\* session.
App_get_balance_Unguarded(st) ==
    IF ~is_none(st.current_user) THEN st.users[unwrap(st.current_user)]
    ELSE IF DOMAIN st.users = {} THEN 0
    ELSE st.users[CHOOSE u \in DOMAIN st.users : TRUE]

App_get_balance(st) ==
    IF is_none(st.current_user) THEN 0 ELSE st.users[unwrap(st.current_user)]

\* Mutant of App_login: the session is opened without asking the store.
App_login_Any(st, username, fault) ==
    [add_message(st, Text("Login successful.", <<>>))
        EXCEPT !.current_user = Some(username),
               !.current_state = "LoggedIn",
               !.ret = Call("login", "Ok(true)")]

App_login(st, username, fault) ==
    IF fault = 1 THEN Failed(st, "login")
    ELSE IF username \in DOMAIN st.users
    THEN [add_message(st, Text("Login successful.", <<>>))
            EXCEPT !.current_user = Some(username),
                   !.current_state = "LoggedIn",
                   !.ret = Call("login", "Ok(true)")]
    ELSE [add_message(st, Text("User does not exist. Please try again.", <<>>))
            EXCEPT !.ret = Call("login", "Ok(false)")]

\* Mutant of App_create_account: INSERT OR REPLACE without the existence test.
App_create_account_Overwrite(st, username, fault) ==
    [add_message(st, Text("Account created successfully.", <<>>))
        EXCEPT !.users = (username :> 0) @@ @,
               !.current_user = Some(username),
               !.current_state = "LoggedIn",
               !.ret = Call("create_account", "Ok(true)")]

App_create_account(st, username, fault) ==
    IF fault = 1 THEN Failed(st, "create_account")
    ELSE IF username \in DOMAIN st.users
    THEN [add_message(st,
            Text("Username already exists. Please choose a different username.", <<>>))
            EXCEPT !.ret = Call("create_account", "Ok(false)")]
    ELSE IF fault = 2 THEN Failed(st, "create_account")
    ELSE [add_message(st, Text("Account created successfully.", <<>>))
            EXCEPT !.users = @ @@ (username :> 0),
                   !.current_user = Some(username),
                   !.current_state = "LoggedIn",
                   !.ret = Call("create_account", "Ok(true)")]

\* Mutant of App_logout: the screen changes and the session stays open.
App_logout_KeepUser(st) ==
    [add_message(st, Text("Logged out successfully.", <<>>))
        EXCEPT !.current_state = "MainMenu",
               !.ret = Call("logout", "()")]

\* Mutant of App_logout: a logout of an anonymous session opens the Login
\* screen.
App_logout_Toggle(st) ==
    [add_message(st, Text("Logged out successfully.", <<>>))
        EXCEPT !.current_user = None,
               !.current_state = IF is_none(st.current_user) THEN "Login"
                                 ELSE "MainMenu",
               !.ret = Call("logout", "()")]

App_logout(st) ==
    [add_message(st, Text("Logged out successfully.", <<>>))
        EXCEPT !.current_user = None,
               !.current_state = "MainMenu",
               !.ret = Call("logout", "()")]

App_deposit(st, amount, now, fault) ==
    IF is_none(st.current_user) THEN [st EXCEPT !.ret = Call("deposit", "Ok")]
    ELSE IF fault = 1 THEN Failed(st, "deposit")
    ELSE
      LET username == unwrap(st.current_user)
          previous_balance == App_get_balance(st)
          new_balance == f64_add(previous_balance, amount)
          s1 == UpdateBalance(st, username, new_balance)
          s2 == InsertRow(s1, Row(s1, username, "deposit", amount, None, None,
                                  previous_balance, new_balance, now))
      IN  IF fault = 2 \/ NotNullFails(new_balance) THEN Failed(st, "deposit")
          ELSE IF fault = 3 THEN Failed(s1, "deposit")
          ELSE [add_message(s2, Text("Deposited ${:.2}", <<amount>>))
                  EXCEPT !.ret = Call("deposit", "Ok")]

App_withdraw(st, amount, now, fault) ==
    IF is_none(st.current_user) THEN [st EXCEPT !.ret = Call("withdraw", "Ok")]
    ELSE IF fault = 1 THEN Failed(st, "withdraw")
    ELSE
      LET username == unwrap(st.current_user)
          previous_balance == App_get_balance(st)
          new_balance == f64_sub(previous_balance, amount)
          s1 == UpdateBalance(st, username, new_balance)
          s2 == InsertRow(s1, Row(s1, username, "withdraw", amount, None, None,
                                  previous_balance, new_balance, now))
      IN  IF fault = 2 \/ NotNullFails(new_balance) THEN Failed(st, "withdraw")
          ELSE IF fault = 3 THEN Failed(s1, "withdraw")
          ELSE [add_message(s2, Text("Withdrawn ${:.2}", <<amount>>))
                  EXCEPT !.ret = Call("withdraw", "Ok")]

\* Mutant of App_can_withdraw: the comparison is the wrong way round.
App_can_withdraw_Reversed(st, amount, fault) ==
    IF is_none(st.current_user)
    THEN [st |-> [st EXCEPT !.ret = Call("can_withdraw", "Ok(false)")], ok |-> FALSE]
    ELSE IF fault = 1 THEN [st |-> Failed(st, "can_withdraw"), ok |-> FALSE]
    ELSE LET ok == amount >= st.users[unwrap(st.current_user)]
         IN  [st |-> [st EXCEPT !.ret =
                        Call("can_withdraw", IF ok THEN "Ok(true)" ELSE "Ok(false)")],
              ok |-> ok]

\* Mutant of App_can_withdraw: the balance is not compared with the amount.
App_can_withdraw_Unchecked(st, amount, fault) ==
    IF is_none(st.current_user)
    THEN [st |-> [st EXCEPT !.ret = Call("can_withdraw", "Ok(false)")], ok |-> FALSE]
    ELSE IF fault = 1 THEN [st |-> Failed(st, "can_withdraw"), ok |-> FALSE]
    ELSE [st |-> [st EXCEPT !.ret = Call("can_withdraw", "Ok(true)")], ok |-> TRUE]

\* App::can_withdraw: [st, ok] with ok the bool of its Ok
App_can_withdraw(st, amount, fault) ==
    IF is_none(st.current_user)
    THEN [st |-> [st EXCEPT !.ret = Call("can_withdraw", "Ok(false)")], ok |-> FALSE]
    ELSE IF fault = 1 THEN [st |-> Failed(st, "can_withdraw"), ok |-> FALSE]
    ELSE LET ok == f64_ge(st.users[unwrap(st.current_user)], amount)
         IN  [st |-> [st EXCEPT !.ret =
                        Call("can_withdraw", IF ok THEN "Ok(true)" ELSE "Ok(false)")],
              ok |-> ok]

\* App::transfer past its two checks: the reads, the two UPDATEs and the
\* two INSERTs (statements 3 to 8).  Neither INSERT names the timestamp:
\* each row takes the CURRENT_TIMESTAMP of its own statement, `now` for the
\* first and `lag` seconds later for the second.
App_transfer_apply(st, recipient, amount, now, fault, lag) ==
    LET sender == unwrap(st.current_user)
        sender_previous_balance == App_get_balance(st)
        sender_new_balance == f64_sub(sender_previous_balance, amount)
        recipient_previous_balance == st.users[recipient]
        recipient_new_balance == f64_add(recipient_previous_balance, amount)
        s1 == UpdateBalance(st, sender, sender_new_balance)
        s2 == UpdateBalance(s1, recipient, recipient_new_balance)
        s3 == InsertRow(s2, Row(s2, sender, "transfer_out", amount,
                                Some(recipient), Some(sender),
                                sender_previous_balance, sender_new_balance, now))
        s4 == InsertRow(Elapse(s3, lag),
                        Row(s3, recipient, "transfer_in", amount,
                            Some(recipient), Some(sender),
                            recipient_previous_balance, recipient_new_balance,
                            now + lag))
    IN  IF fault \in {3, 4, 5} \/ NotNullFails(sender_new_balance)
        THEN Failed(st, "transfer")
        ELSE IF fault = 6 \/ NotNullFails(recipient_new_balance)
        THEN Failed(s1, "transfer")
        ELSE IF fault = 7 THEN Failed(s2, "transfer")
        ELSE IF fault = 8 THEN Failed(s3, "transfer")
        ELSE [add_message(s4, Text("Transferred ${:.2} to {}", <<amount, recipient>>))
                EXCEPT !.ret = Call("transfer", "Ok(true)")]

\* Mutant of App_transfer: the sender is debited before the funds are checked.
App_transfer_DebitFirst(st, recipient, amount, now, fault, lag) ==
    IF fault = 1 THEN Failed(st, "transfer")
    ELSE IF recipient \notin DOMAIN st.users
    THEN [add_message(st, Text("Recipient '{}' does not exist.", <<recipient>>))
            EXCEPT !.ret = Call("transfer", "Ok(false)")]
    ELSE
      LET can == App_can_withdraw(st, amount, IF fault = 2 THEN 1 ELSE 0)
          s1 == UpdateBalance(st, unwrap(st.current_user), App_get_balance(st) - amount)
      IN
      IF IsErr(can.st) THEN Failed(st, "transfer")
      ELSE IF ~can.ok
      THEN [add_message(s1, Text("Insufficient funds for transfer.", <<>>))
              EXCEPT !.ret = Call("transfer", "Ok(false)")]
      ELSE App_transfer_apply(st, recipient, amount, now, fault, lag)

App_transfer(st, recipient, amount, now, fault, lag) ==
    IF fault = 1 THEN Failed(st, "transfer")
    ELSE IF recipient \notin DOMAIN st.users
    THEN [add_message(st, Text("Recipient '{}' does not exist.", <<recipient>>))
            EXCEPT !.ret = Call("transfer", "Ok(false)")]
    ELSE
      LET can == App_can_withdraw(st, amount, IF fault = 2 THEN 1 ELSE 0)
      IN
      IF IsErr(can.st) THEN Failed(st, "transfer")
      ELSE IF ~can.ok
      THEN [add_message(st, Text("Insufficient funds for transfer.", <<>>))
              EXCEPT !.ret = Call("transfer", "Ok(false)")]
      ELSE IF is_none(st.current_user) THEN Panicked(st, "transfer")
      ELSE App_transfer_apply(st, recipient, amount, now, fault, lag)

-----------------------------------------------------------------------------
(* The key dispatch of main (src/src/main.rs).  A handler yields the state  *)
(* it leaves and how the loop goes on: "continue", "break" or "err" (a `?`  *)
(* returned the storage error from main).                                   *)

Continue(st) == [st |-> st, flow |-> "continue"]
\* Mutant of Flow: the storage error is dropped and the loop goes on.
Flow_Swallow(st) == [st |-> st, flow |-> "continue"]

Flow(st) ==
    [st |-> st,
     flow |-> IF IsErr(st) THEN "err" ELSE IF IsPanic(st) THEN "panic" ELSE "continue"]

\* Mutant of main_MainMenu: 'q' is one more ignored key.
main_MainMenu_NoQuit(st, key) ==
    IF key = Char("1") THEN Continue([st EXCEPT !.current_state = "Login"])
    ELSE IF key = Char("2") THEN Continue([st EXCEPT !.current_state = "CreateAccount"])
    ELSE Continue(st)

main_MainMenu(st, key) ==
    IF key = Char("1") THEN Continue([st EXCEPT !.current_state = "Login"])
    ELSE IF key = Char("2") THEN Continue([st EXCEPT !.current_state = "CreateAccount"])
    ELSE IF key = Char("q") THEN [st |-> st, flow |-> "break"]
    ELSE Continue(st)

main_Login_CreateAccount(st, key, fault) ==
    IF key = Enter THEN
        IF st.input # EmptyString THEN
            LET s1 == IF st.current_state = "Login"
                      THEN App_login(st, st.input, fault)
                      ELSE App_create_account(st, st.input, fault)
            IN  IF IsErr(s1) THEN Flow(s1)
                ELSE IF s1.ret.value = "Ok(true)"
                THEN Continue([s1 EXCEPT !.input = EmptyString])
                ELSE Continue(s1)
        ELSE Continue(st)
    ELSE IF key.code = "Char" THEN Continue([st EXCEPT !.input = Append(@, key.c)])
    ELSE IF key = Backspace THEN Continue([st EXCEPT !.input = pop(@)])
    ELSE IF key = Esc
    THEN Continue([st EXCEPT !.current_state = "MainMenu", !.input = EmptyString])
    ELSE Continue(st)

main_LoggedIn(st, key) ==
    IF key = Char("1") THEN Continue([st EXCEPT !.current_state = "Deposit"])
    ELSE IF key = Char("2") THEN Continue([st EXCEPT !.current_state = "Withdraw"])
    ELSE IF key = Char("3") THEN Continue([st EXCEPT !.current_state = "Transfer"])
    ELSE IF key = Char("4") THEN Continue([st EXCEPT !.current_state = "ViewTransactions"])
    ELSE IF key = Char("5") THEN Continue(App_logout(st))
    ELSE Continue(st)

\* Mutant of main_Deposit_Withdraw: Esc leaves the screen with the input as
\* typed.
main_Deposit_Withdraw_EscKeeps(st, key, now, fault) ==
    IF key.code = "Char" THEN Continue([st EXCEPT !.input = Append(@, key.c)])
    ELSE IF key = Esc THEN Continue([st EXCEPT !.current_state = "LoggedIn"])
    ELSE Continue(st)

main_Deposit_Withdraw(st, key, now, fault) ==
    IF key = Enter THEN
        LET parsed == parse_f64(trim(st.input))
            amount == parsed.value
        IN
        IF parsed.ok /\ f64_ge(amount, 0) THEN
            LET s1 ==
                  IF st.current_state = "Deposit"
                  THEN App_deposit(st, amount, now, fault)
                  ELSE LET can == App_can_withdraw(st, amount, IF fault = 1 THEN 1 ELSE 0)
                       IN  IF IsErr(can.st) THEN can.st
                           ELSE IF can.ok
                           THEN App_withdraw(can.st, amount, now,
                                             IF fault > 1 THEN fault - 1 ELSE 0)
                           ELSE add_message(can.st, Text("Insufficient funds.", <<>>))
            IN  IF IsErr(s1) THEN Flow(s1)
                ELSE Continue([s1 EXCEPT !.input = EmptyString,
                                         !.current_state = "LoggedIn"])
        ELSE Continue([add_message(st, Text("Invalid amount entered.", <<>>))
                         EXCEPT !.input = EmptyString])
    ELSE IF key.code = "Char" THEN Continue([st EXCEPT !.input = Append(@, key.c)])
    ELSE IF key = Backspace THEN Continue([st EXCEPT !.input = pop(@)])
    ELSE IF key = Esc
    THEN Continue([st EXCEPT !.current_state = "LoggedIn", !.input = EmptyString])
    ELSE Continue(st)

\* Mutant of main_Transfer: an Enter on a text that reads as an amount is
\* taken as the amount even when no recipient was captured.
main_Transfer_AmountFirst(st, key, now, fault, lag) ==
    IF key = Enter THEN
        IF is_none(st.transfer_recipient)
           /\ ~(parse_f64(trim(st.input)).ok /\ f64_ge(parse_f64(trim(st.input)).value, 0))
        THEN Continue([st EXCEPT !.transfer_recipient = Some(st.input),
                                 !.input = EmptyString])
        ELSE
          LET parsed == parse_f64(trim(st.input))
              amount == parsed.value
          IN
          IF parsed.ok /\ f64_ge(amount, 0) THEN
              LET recipient == unwrap(st.transfer_recipient)
                  s0 == [st EXCEPT !.transfer_recipient = None]
                  s1 == App_transfer(s0, recipient, amount, now, fault, lag)
              IN  IF is_none(st.transfer_recipient)
                  THEN Flow(Panicked(st, "take().unwrap()"))
                  ELSE IF IsErr(s1) \/ IsPanic(s1) THEN Flow(s1)
                  ELSE IF s1.ret.value = "Ok(true)"
                  THEN Continue([s1 EXCEPT !.input = EmptyString,
                                           !.current_state = "LoggedIn"])
                  ELSE Continue(s1)
          ELSE Continue(add_message([st EXCEPT !.input = EmptyString],
                                    Text("Invalid amount entered.", <<>>)))
    ELSE IF key.code = "Char" THEN Continue([st EXCEPT !.input = Append(@, key.c)])
    ELSE IF key = Backspace THEN Continue([st EXCEPT !.input = pop(@)])
    ELSE IF key = Esc
    THEN Continue([st EXCEPT !.current_state = "LoggedIn", !.input = EmptyString,
                             !.transfer_recipient = None])
    ELSE Continue(st)

main_Transfer(st, key, now, fault, lag) ==
    IF key = Enter THEN
        IF is_none(st.transfer_recipient)
        THEN Continue([st EXCEPT !.transfer_recipient = Some(st.input),
                                 !.input = EmptyString])
        ELSE
          LET parsed == parse_f64(trim(st.input))
              amount == parsed.value
          IN
          IF parsed.ok /\ f64_ge(amount, 0) THEN
              LET recipient == unwrap(st.transfer_recipient)
                  s0 == [st EXCEPT !.transfer_recipient = None]
                  s1 == App_transfer(s0, recipient, amount, now, fault, lag)
              IN  IF is_none(st.transfer_recipient)
                  THEN Flow(Panicked(st, "take().unwrap()"))
                  ELSE IF IsErr(s1) \/ IsPanic(s1) THEN Flow(s1)
                  ELSE IF s1.ret.value = "Ok(true)"
                  THEN Continue([s1 EXCEPT !.input = EmptyString,
                                           !.current_state = "LoggedIn"])
                  ELSE Continue(s1)
          ELSE Continue(add_message([st EXCEPT !.input = EmptyString],
                                    Text("Invalid amount entered.", <<>>)))
    ELSE IF key.code = "Char" THEN Continue([st EXCEPT !.input = Append(@, key.c)])
    ELSE IF key = Backspace THEN Continue([st EXCEPT !.input = pop(@)])
    ELSE IF key = Esc
    THEN Continue([st EXCEPT !.current_state = "LoggedIn", !.input = EmptyString,
                             !.transfer_recipient = None])
    ELSE Continue(st)

\* Mutant of main_ViewTransactions: Esc and Enter leave to the main menu.
main_ViewTransactions_ToMenu(st, key) ==
    IF key = Esc \/ key = Enter
    THEN Continue([st EXCEPT !.current_state = "MainMenu"])
    ELSE Continue(st)

main_ViewTransactions(st, key) ==
    IF key = Esc \/ key = Enter
    THEN Continue([st EXCEPT !.current_state = "LoggedIn"])
    ELSE Continue(st)

\* match app.current_state { ... } of main
main_key(st, key, now, fault, lag) ==
    CASE st.current_state = "MainMenu" -> main_MainMenu(st, key)
      [] st.current_state \in {"Login", "CreateAccount"} ->
            main_Login_CreateAccount(st, key, fault)
      [] st.current_state = "LoggedIn" -> main_LoggedIn(st, key)
      [] st.current_state \in {"Deposit", "Withdraw"} ->
            main_Deposit_Withdraw(st, key, now, fault)
      [] st.current_state = "Transfer" -> main_Transfer(st, key, now, fault, lag)
      [] st.current_state = "ViewTransactions" -> main_ViewTransactions(st, key)


-----------------------------------------------------------------------------
(* The repositories (src/src/models) *)

\* User::get: Option<User>
User_get(st, username) ==
    IF username \in DOMAIN st.users
    THEN Some([username |-> username, balance |-> st.users[username]])
    ELSE None

\* User::update_balance
User_update_balance(st, username, new_balance) ==
    UpdateBalance(st, username, new_balance)

\* The decimal text of an integer
RECURSIVE DecimalDigits(_)
DecimalDigits(n) ==
    LET digit == CHOOSE c \in Digits : DigitValue(c) = n % 10
    IN  IF n < 10 THEN <<digit>> ELSE Append(DecimalDigits(n \div 10), digit)
DecimalText(n) == IF n < 0 THEN <<"-">> \o DecimalDigits(0 - n) ELSE DecimalDigits(n)

\* The id of the k-th Transaction literal that AppController builds in a
\* call entered with the table of st.  The literals of the source name no
\* id field, and the struct has one, so the source gives the id no value;
\* the value here is the "monotonically increasing identifier" of the
\* specification: the key the table gives next.  deposit, withdraw and
\* transfer take the ids as arguments and do what the code does with any
\* text: one that is no integer or names a taken key makes
\* Transaction::create fail after the balance is written, as the fault on
\* its INSERT does.
literal_id(st, k) == DecimalText(NextRowid(st) + k - 1)

\* A Transaction value
Transaction(id, username, type, amount, recipient, sender, previous, new, now) ==
    [id |-> id, username |-> username, transaction_type |-> type,
     amount |-> amount, recipient |-> recipient, sender |-> sender,
     previous_balance |-> previous, new_balance |-> new, timestamp |-> now]

\* An optional sign and decimal digits, as the integer they write.
\* The result is [ok |-> BOOLEAN, value |-> the integer].
parse_integer(t) ==
    IF AllDigits(t) THEN [ok |-> TRUE, value |-> DecimalValue(t)]
    ELSE IF t # <<>> /\ Head(t) \in {"-", "+"} /\ AllDigits(Tail(t))
         THEN [ok |-> TRUE,
               value |-> IF Head(t) = "-" THEN 0 - DecimalValue(Tail(t))
                         ELSE DecimalValue(Tail(t))]
    ELSE [ok |-> FALSE, value |-> 0]

\* The place of the first character of s that is in C, 0 when there is none.
FirstOf(s, C) ==
    IF \E i \in 1..Len(s) : s[i] \in C
    THEN CHOOSE i \in 1..Len(s) : s[i] \in C /\ \A j \in 1..(i - 1) : s[j] \notin C
    ELSE 0

Zeros(n) == [i \in 1..n |-> "0"]
AllZeros(s) == \A i \in 1..Len(s) : s[i] = "0"

\* Decimal digits without their leading zeros (the empty string for zero)
RECURSIVE StripZeros(_)
StripZeros(s) == IF s # <<>> /\ Head(s) = "0" THEN StripZeros(Tail(s)) ELSE s

\* a < b for two numbers written without leading zeros
Less(a, b) ==
    \/ Len(a) < Len(b)
    \/ /\ Len(a) = Len(b)
       /\ \E i \in 1..Len(a) :
            /\ DigitValue(a[i]) < DigitValue(b[i])
            /\ \A j \in 1..(i - 1) : a[j] = b[j]

\* The numbers of a 64-bit key that the integers of the model cannot hold
\* are kept as their decimal digits.

\* The digits of a numeric text as its 64-bit significand keeps them: a
\* digit is taken while the significand is below (2^63 - 10) / 10, the
\* digits after that count as zeros.
significand(digits) ==
    LET SignificandLimit ==
            <<"9", "2", "2", "3", "3", "7", "2", "0", "3", "6", "8", "5", "4",
              "7", "7", "5", "7", "9">>
        full(j) == ~Less(StripZeros(SubSeq(digits, 1, j)), SignificandLimit)
        kept == IF \E j \in 0..Len(digits) : full(j)
                THEN CHOOSE j \in 0..Len(digits) :
                        full(j) /\ \A i \in 0..(j - 1) : ~full(i)
                ELSE Len(digits)
    IN  SubSeq(digits, 1, kept) \o Zeros(Len(digits) - kept)

\* Digits with at most one decimal point among them: [ok, digits, point],
\* point the number of digits before the decimal point.
mantissa(m) ==
    LET dot == FirstOf(m, {"."})
        digits == IF dot = 0 THEN m
                  ELSE SubSeq(m, 1, dot - 1) \o SubSeq(m, dot + 1, Len(m))
    IN  [ok |-> AllDigits(digits), digits |-> digits,
         point |-> IF dot = 0 THEN Len(m) ELSE dot - 1]

\* f64 rounding, on a fraction 0.d1d2... given by its digits as numbers:
\* the fraction times 2^j is at most 1.
RECURSIVE AtMostOne(_, _)
AtMostOne(ds, j) ==
    LET Twice ==
            [i \in 1..Len(ds) |->
                (2 * ds[i] + (IF i < Len(ds) /\ ds[i + 1] >= 5 THEN 1 ELSE 0)) % 10]
    IN  IF j = 0 \/ ds = <<>> THEN TRUE
        ELSE IF ds[1] >= 5
        THEN j = 1 /\ ds[1] = 5 /\ \A i \in 2..Len(ds) : ds[i] = 0
        ELSE AtMostOne(Twice, j - 1)

\* The integer that the double nearest to a number is, when it is one and
\* lies inside i64: [ok, value].  A number that is not an integer still
\* becomes one when the f64 nearest to it is.  `whole` are the digits before
\* the decimal point, and after it come `shift` zeros and then `fraction`,
\* of which at most 19 digits count.
nearest_integer(whole, shift, fraction) ==
    LET \* 2^63 - 512: a number from here on is nearer to the double 2^63
        \* than to the double below it
        RoundsOutOfI64 ==
            <<"9", "2", "2", "3", "3", "7", "2", "0", "3", "6", "8", "5", "4",
              "7", "7", "5", "2", "9", "6">>
        \* A number below 1e-307 is divided by a power of ten into an f64
        \* and that by the f64 1e308, which gives 0.0 up to
        \* 0.2470328229206232994...e-323 (midway between the two f64 whose
        \* quotients are 0.0 and the least positive double); a number with
        \* 342 or more decimal places down to its last digit that counts
        \* is 0.0 outright.
        UnderflowLimit ==
            <<"2", "4", "7", "0", "3", "2", "8", "2", "2", "9", "2", "0", "6",
              "2", "3", "2", "9", "9", "4">>
        rest == StripZeros(fraction)
        zeros == shift + Len(fraction) - Len(rest)
        counted == CHOOSE i \in 1..Len(rest) :
                      rest[i] # "0" /\ \A j \in (i + 1)..Len(rest) : rest[j] = "0"
        RoundsToZero ==
            \/ zeros + counted >= 342
            \/ zeros > 323
            \/ /\ zeros = 323
               /\ ~Less(UnderflowLimit,
                        StripZeros(SubSeq(rest \o Zeros(Len(UnderflowLimit)),
                                          1, Len(UnderflowLimit))))
        \* the digits of the fraction, and of 1 minus the fraction
        FractionDigits == [i \in 1..Len(fraction) |-> DigitValue(fraction[i])]
        Complement ==
            LET last == CHOOSE i \in 1..Len(fraction) :
                            /\ fraction[i] # "0"
                            /\ \A j \in (i + 1)..Len(fraction) : fraction[j] = "0"
            IN  [i \in 1..Len(fraction) |->
                    IF i < last THEN 9 - DigitValue(fraction[i])
                    ELSE IF i = last THEN 10 - DigitValue(fraction[i]) ELSE 0]
        \* the place of the leading bit of n >= 1
        Log2(n) == CHOOSE k \in 0..30 : 2^k <= n /\ (k = 30 \/ n < 2^(k + 1))
        up(n, bits) ==
            IF AllZeros(fraction) \/ AtMostOne(FractionDigits, bits)
            THEN [ok |-> TRUE, value |-> n]
            ELSE IF AtMostOne(Complement, bits)
            THEN [ok |-> TRUE, value |-> n + 1]
            ELSE [ok |-> FALSE, value |-> 0]
    IN  IF ~Less(whole, RoundsOutOfI64) THEN [ok |-> FALSE, value |-> 0]
        ELSE IF whole # <<>>
        THEN up(DecimalValue(whole), 53 - Log2(DecimalValue(whole)))
        ELSE IF AllZeros(fraction) \/ RoundsToZero
        THEN [ok |-> TRUE, value |-> 0]
        ELSE IF shift = 0 /\ Head(fraction) = "9" /\ AtMostOne(Complement, 54)
        THEN [ok |-> TRUE, value |-> 1]
        ELSE [ok |-> FALSE, value |-> 0]

\* The number written by `digits` with the decimal point after the first
\* `point` of them, read as SQLite reads a real: [ok, value].
integral(digits, point) ==
    IF point >= Len(digits)
    THEN nearest_integer(IF AllZeros(digits) THEN <<>>
                         ELSE StripZeros(digits) \o Zeros(point - Len(digits)),
                         0, <<>>)
    ELSE IF point <= 0
    THEN nearest_integer(<<>>, 0 - point, digits)
    ELSE nearest_integer(StripZeros(SubSeq(digits, 1, point)), 0,
                         SubSeq(digits, point + 1, Len(digits)))

\* An unsigned numeric text: a mantissa and an optional exponent (e or E, an
\* optional sign, digits; one of more than four digits counts as 10000,
\* which is beyond every double).  Digits alone are an integer and are
\* taken as they stand when they fit i64; any other text is a real.
numeric(body, negative) ==
    LET \* 2^63 - 1, or 2^63 under a minus sign: the ends of i64
        I64End ==
            <<"9", "2", "2", "3", "3", "7", "2", "0", "3", "6", "8", "5", "4",
              "7", "7", "5", "8", "0", IF negative THEN "8" ELSE "7">>
        e == FirstOf(body, {"e", "E"})
        exponent(t) ==
            IF t # <<>> /\ AllDigits(IF Head(t) \in {"-", "+"} THEN Tail(t) ELSE t)
               /\ Len(StripZeros(IF Head(t) \in {"-", "+"} THEN Tail(t) ELSE t)) > 4
            THEN [ok |-> TRUE,
                  value |-> IF Head(t) = "-" THEN 0 - 10000 ELSE 10000]
            ELSE parse_integer(t)
        scaled(m, x) ==
            IF ~(m.ok /\ x.ok) THEN [ok |-> FALSE, value |-> 0]
            ELSE IF AllDigits(body) /\ ~Less(I64End, StripZeros(body))
            THEN [ok |-> TRUE, value |-> DecimalValue(StripZeros(body))]
            ELSE integral(significand(m.digits), m.point + x.value)
    IN  scaled(mantissa(IF e = 0 THEN body ELSE SubSeq(body, 1, e - 1)),
               IF e = 0 THEN [ok |-> TRUE, value |-> 0]
               ELSE exponent(SubSeq(body, e + 1, Len(body))))

\* The characters SQLite skips around a numeric text: the six of ASCII
Isspace == {" ", "\t", "\n", "", "\f", "\r"}

\* A text bound to the INTEGER PRIMARY KEY column (the column has INTEGER
\* affinity and takes integers only): white space around the text is
\* skipped, a text that writes a number is read as an i64 or else as an
\* f64, a number that is an integer inside i64 is stored as that integer,
\* and any other text is a datatype mismatch.  [ok, value].
integer_key(text) ==
    LET sign(n, negative) ==
            [ok |-> n.ok, value |-> IF negative THEN 0 - n.value ELSE n.value]
        signed(t) ==
            sign(numeric(IF t # <<>> /\ Head(t) \in {"-", "+"} THEN Tail(t) ELSE t,
                         t # <<>> /\ Head(t) = "-"),
                 t # <<>> /\ Head(t) = "-")
    IN  signed(trim_matches(text, Isspace))

\* The table is kept in the order of its key.
InsertByKey(st, row) ==
    [st EXCEPT !.transactions =
        SelectSeq(@, LAMBDA r : r.id < row.id) \o <<row>>
            \o SelectSeq(@, LAMBDA r : r.id > row.id)]

\* Transaction::create: [ok, st].  The row is stored under the id the
\* caller passes.  Err (ok FALSE, nothing stored) when the id is no integer,
\* when the key is taken, or when a REAL NOT NULL column is given a NaN.
Transaction_create(st, t) ==
    LET insert(key) ==
            IF \/ ~key.ok
               \/ \E i \in 1..Len(st.transactions) : st.transactions[i].id = key.value
               \/ NotNullFails(t.amount)
               \/ NotNullFails(t.previous_balance)
               \/ NotNullFails(t.new_balance)
            THEN [ok |-> FALSE, st |-> st]
            ELSE [ok |-> TRUE,
                  st |-> InsertByKey(st,
                            [id |-> key.value, username |-> t.username,
                             transaction_type |-> t.transaction_type,
                             amount |-> t.amount, recipient |-> t.recipient,
                             sender |-> t.sender,
                             previous_balance |-> t.previous_balance,
                             new_balance |-> t.new_balance,
                             timestamp |-> t.timestamp])]
    IN  insert(integer_key(t.id))

-----------------------------------------------------------------------------
(* AppController (src/src/controllers/app_controller.rs) *)

\* AppController::get_balance, the value of its Ok
Ctl_get_balance(st) ==
    IF is_none(st.current_user) THEN 0
    ELSE LET user == User_get(st, unwrap(st.current_user))
         IN  IF is_none(user) THEN 0 ELSE unwrap(user).balance

Ctl_login(st, username, fault) ==
    IF fault = 1 THEN Failed(st, "login")
    ELSE IF ~is_none(User_get(st, username))
    THEN [add_message(st, Text("Login successful.", <<>>))
            EXCEPT !.current_user = Some(username),
                   !.current_state = "LoggedIn",
                   !.ret = Call("login", "Ok(true)")]
    ELSE [add_message(st, Text("User does not exist. Please try again.", <<>>))
            EXCEPT !.ret = Call("login", "Ok(false)")]

\* User::create: [st, created], st failed on a storage error
User_create(st, username, fault) ==
    IF fault = 1 THEN [st |-> Failed(st, "create_account"), created |-> FALSE]
    ELSE IF username \in DOMAIN st.users THEN [st |-> st, created |-> FALSE]
    ELSE IF fault = 2 THEN [st |-> Failed(st, "create_account"), created |-> FALSE]
    ELSE [st |-> [st EXCEPT !.users = @ @@ (username :> 0)], created |-> TRUE]

Ctl_create_account(st, username, fault) ==
    LET c == User_create(st, username, fault)
    IN  IF IsErr(c.st) THEN c.st
        ELSE IF c.created
        THEN [add_message(c.st, Text("Account created successfully.", <<>>))
                EXCEPT !.current_user = Some(username),
                       !.current_state = "LoggedIn",
                       !.ret = Call("create_account", "Ok(true)")]
        ELSE [add_message(c.st,
                Text("Username already exists. Please choose a different username.", <<>>))
                EXCEPT !.ret = Call("create_account", "Ok(false)")]

Ctl_logout(st) ==
    [add_message(st, Text("Logged out successfully.", <<>>))
        EXCEPT !.current_user = None,
               !.current_state = "MainMenu",
               !.ret = Call("logout", "()")]

Ctl_deposit(st, amount, now, fault, id) ==
    IF is_none(st.current_user) THEN [st EXCEPT !.ret = Call("deposit", "Ok")]
    ELSE IF fault = 1 THEN Failed(st, "deposit")
    ELSE
      LET username == unwrap(st.current_user)
          previous_balance == Ctl_get_balance(st)
          new_balance == f64_add(previous_balance, amount)
          s1 == User_update_balance(st, username, new_balance)
          recorded(created) ==
              IF fault = 2 \/ NotNullFails(new_balance) THEN Failed(st, "deposit")
              ELSE IF fault = 3 \/ ~created.ok THEN Failed(s1, "deposit")
              ELSE [add_message(created.st, Text("Deposited ${:.2}", <<amount>>))
                      EXCEPT !.ret = Call("deposit", "Ok")]
      IN  recorded(Transaction_create(s1,
                      Transaction(id, username, "deposit", amount,
                                  None, None, previous_balance, new_balance,
                                  now)))

Ctl_withdraw(st, amount, now, fault, id) ==
    IF is_none(st.current_user) THEN [st EXCEPT !.ret = Call("withdraw", "Ok")]
    ELSE IF fault = 1 THEN Failed(st, "withdraw")
    ELSE
      LET username == unwrap(st.current_user)
          previous_balance == Ctl_get_balance(st)
          new_balance == f64_sub(previous_balance, amount)
          s1 == User_update_balance(st, username, new_balance)
          recorded(created) ==
              IF fault = 2 \/ NotNullFails(new_balance) THEN Failed(st, "withdraw")
              ELSE IF fault = 3 \/ ~created.ok THEN Failed(s1, "withdraw")
              ELSE [add_message(created.st, Text("Withdrawn ${:.2}", <<amount>>))
                      EXCEPT !.ret = Call("withdraw", "Ok")]
      IN  recorded(Transaction_create(s1,
                      Transaction(id, username, "withdraw", amount,
                                  None, None, previous_balance, new_balance,
                                  now)))

\* AppController::can_withdraw: [st, ok] with ok the bool of its Ok
Ctl_can_withdraw(st, amount, fault) ==
    IF is_none(st.current_user)
    THEN [st |-> [st EXCEPT !.ret = Call("can_withdraw", "Ok(false)")], ok |-> FALSE]
    ELSE IF fault = 1 THEN [st |-> Failed(st, "can_withdraw"), ok |-> FALSE]
    ELSE LET user == User_get(st, unwrap(st.current_user))
             ok == IF is_none(user) THEN FALSE ELSE f64_ge(unwrap(user).balance, amount)
         IN  [st |-> [st EXCEPT !.ret =
                        Call("can_withdraw", IF ok THEN "Ok(true)" ELSE "Ok(false)")],
              ok |-> ok]

\* AppController::transfer.  Each of its two Transaction literals reads the
\* clock when it is built: `now` for the sender's, `lag` seconds later for
\* the recipient's, which is built after the sender's row is written.
Ctl_transfer(st, recipient, amount, now, fault, lag, sender_id, recipient_id) ==
    IF fault = 1 THEN Failed(st, "transfer")
    ELSE
      LET recipient_user == User_get(st, recipient)
      IN
      IF is_none(st.current_user) \/ is_none(recipient_user)
      THEN [add_message(st, Text("Transfer failed. Recipient '{}' not found.",
                                 <<recipient>>))
              EXCEPT !.ret = Call("transfer", "Ok(false)")]
      ELSE IF fault = 2 THEN Failed(st, "transfer")
      ELSE
        LET sender_username == unwrap(st.current_user)
            sender_previous_balance == Ctl_get_balance(st)
        IN
        IF f64_lt(sender_previous_balance, amount)
        THEN [add_message(st,
                Text("Transfer failed. Insufficient funds. Your balance: ${:.2}",
                     <<sender_previous_balance>>))
                EXCEPT !.ret = Call("transfer", "Ok(false)")]
        ELSE
          LET sender_new_balance == f64_sub(sender_previous_balance, amount)
              recipient_previous_balance == unwrap(recipient_user).balance
              recipient_new_balance == f64_add(recipient_previous_balance, amount)
              s1 == User_update_balance(st, sender_username, sender_new_balance)
              s2 == User_update_balance(s1, recipient, recipient_new_balance)
              recorded(sender_created, recipient_created) ==
                  IF fault = 3 \/ NotNullFails(sender_new_balance)
                  THEN Failed(st, "transfer")
                  ELSE IF fault = 4 \/ NotNullFails(recipient_new_balance)
                  THEN Failed(s1, "transfer")
                  ELSE IF fault = 5 \/ ~sender_created.ok THEN Failed(s2, "transfer")
                  ELSE IF fault = 6 \/ ~recipient_created.ok
                  THEN Failed(sender_created.st, "transfer")
                  ELSE [add_message(recipient_created.st,
                                    Text("Transferred ${:.2} to {}",
                                         <<amount, recipient>>))
                          EXCEPT !.ret = Call("transfer", "Ok(true)")]
              recipient_row(sender_created) ==
                  recorded(sender_created,
                      Transaction_create(Elapse(sender_created.st, lag),
                          Transaction(recipient_id, recipient,
                                      "transfer_in", amount, None,
                                      Some(sender_username),
                                      recipient_previous_balance,
                                      recipient_new_balance, now + lag)))
          IN  recipient_row(
                  Transaction_create(s2,
                      Transaction(sender_id, sender_username, "transfer_out",
                                  amount, Some(recipient), None,
                                  sender_previous_balance, sender_new_balance, now)))

\* AppController::handle_input.  flow "break" is its Ok(false), "continue"
\* its Ok(true), "err" its Err.
handle_input(st, key, now, fault, lag) ==
    CASE st.current_state = "MainMenu" ->
            IF key = Char("1") THEN Continue([st EXCEPT !.current_state = "Login"])
            ELSE IF key = Char("2")
            THEN Continue([st EXCEPT !.current_state = "CreateAccount"])
            ELSE IF key = Char("q") THEN [st |-> st, flow |-> "break"]
            ELSE Continue(st)
      [] st.current_state \in {"Login", "CreateAccount"} ->
            IF key = Enter THEN
                IF st.input # EmptyString THEN
                    LET s1 == IF st.current_state = "Login"
                              THEN Ctl_login(st, st.input, fault)
                              ELSE Ctl_create_account(st, st.input, fault)
                    IN  IF IsErr(s1) THEN Flow(s1)
                        ELSE IF s1.ret.value = "Ok(true)"
                        THEN Continue([s1 EXCEPT !.input = EmptyString])
                        ELSE Continue(s1)
                ELSE Continue(st)
            ELSE IF key.code = "Char"
            THEN Continue([st EXCEPT !.input = Append(@, key.c)])
            ELSE IF key = Backspace THEN Continue([st EXCEPT !.input = pop(@)])
            ELSE IF key = Esc
            THEN Continue([st EXCEPT !.current_state = "MainMenu",
                                     !.input = EmptyString])
            ELSE Continue(st)
      [] st.current_state = "LoggedIn" ->
            IF key = Char("1") THEN Continue([st EXCEPT !.current_state = "Deposit"])
            ELSE IF key = Char("2")
            THEN Continue([st EXCEPT !.current_state = "Withdraw"])
            ELSE IF key = Char("3")
            THEN Continue([st EXCEPT !.current_state = "Transfer"])
            ELSE IF key = Char("4")
            THEN Continue([st EXCEPT !.current_state = "ViewTransactions"])
            ELSE IF key = Char("5") THEN Continue(Ctl_logout(st))
            ELSE Continue(st)
      [] st.current_state \in {"Deposit", "Withdraw"} ->
            IF key = Enter THEN
                LET parsed == parse_f64(trim(st.input))
                    amount == parsed.value
                IN
                IF parsed.ok THEN
                    IF f64_ge(amount, 0) THEN
                        LET s1 ==
                              IF st.current_state = "Deposit"
                              THEN Ctl_deposit(st, amount, now, fault,
                                               literal_id(st, 1))
                              ELSE LET can == Ctl_can_withdraw(st, amount,
                                                  IF fault = 1 THEN 1 ELSE 0)
                                   IN  IF IsErr(can.st) THEN can.st
                                       ELSE IF can.ok
                                       THEN Ctl_withdraw(can.st, amount, now,
                                                IF fault > 1 THEN fault - 1 ELSE 0,
                                                literal_id(st, 1))
                                       ELSE add_message(can.st,
                                                Text("Insufficient funds.", <<>>))
                        IN  IF IsErr(s1) THEN Flow(s1)
                            ELSE Continue([s1 EXCEPT !.input = EmptyString,
                                                     !.current_state = "LoggedIn"])
                    ELSE Continue(add_message(st,
                            Text("Invalid amount. Please enter a positive number.", <<>>)))
                ELSE Continue(add_message(st,
                        Text("Invalid amount. Please enter a valid number.", <<>>)))
            ELSE IF key.code = "Char"
            THEN Continue([st EXCEPT !.input = Append(@, key.c)])
            ELSE IF key = Backspace THEN Continue([st EXCEPT !.input = pop(@)])
            ELSE IF key = Esc
            THEN Continue([st EXCEPT !.current_state = "LoggedIn",
                                     !.input = EmptyString])
            ELSE Continue(st)
      [] st.current_state = "Transfer" ->
            IF key = Enter THEN
                IF is_none(st.transfer_recipient)
                THEN Continue([st EXCEPT !.transfer_recipient = Some(st.input),
                                         !.input = EmptyString])
                ELSE
                  LET parsed == parse_f64(trim(st.input))
                      amount == parsed.value
                  IN
                  IF parsed.ok THEN
                      IF f64_ge(amount, 0) THEN
                          LET recipient == unwrap(st.transfer_recipient)
                              s0 == [st EXCEPT !.transfer_recipient = None]
                              s1 == Ctl_transfer(s0, recipient, amount, now, fault, lag,
                                                 literal_id(st, 1), literal_id(st, 2))
                          IN  IF is_none(st.transfer_recipient)
                              THEN Flow(Panicked(st, "take().unwrap()"))
                              ELSE IF IsErr(s1) THEN Flow(s1)
                              ELSE Continue([s1 EXCEPT !.input = EmptyString,
                                                       !.current_state = "LoggedIn"])
                      ELSE Continue(add_message(st,
                              Text("Invalid amount. Please enter a positive number.",
                                   <<>>)))
                  ELSE Continue(add_message(st,
                          Text("Invalid amount. Please enter a valid number.", <<>>)))
            ELSE IF key.code = "Char"
            THEN Continue([st EXCEPT !.input = Append(@, key.c)])
            ELSE IF key = Backspace THEN Continue([st EXCEPT !.input = pop(@)])
            ELSE IF key = Esc
            THEN Continue([st EXCEPT !.current_state = "LoggedIn",
                                     !.input = EmptyString,
                                     !.transfer_recipient = None])
            ELSE Continue(st)
      [] st.current_state = "ViewTransactions" ->
            IF key = Esc \/ key = Enter
            THEN Continue([st EXCEPT !.current_state = "LoggedIn"])
            ELSE Continue(st)

-----------------------------------------------------------------------------
(* Histories *)

\* Option<String>::unwrap_or_default / row.get(..).unwrap_or_default() on a
\* nullable TEXT column: NULL reads as "".
unwrap_or_default(o) == IF is_none(o) THEN EmptyString ELSE unwrap(o)

\* WHERE username = ? OR sender = ?  (both bound to the queried username)
Where(row, username) == row.username = username \/ row.sender = Some(username)

RowsWhere(st, username) ==
    {st.transactions[i] : i \in {j \in 1..Len(st.transactions) :
                                   Where(st.transactions[j], username)}}

\* ORDER BY timestamp DESC: every order of the rows in which no row comes
\* before one with a later timestamp (rows of one second come in any order).
RECURSIVE OrderByTimestampDesc(_)
OrderByTimestampDesc(rows) ==
    IF rows = {} THEN {<<>>}
    ELSE UNION { {<<r>> \o rest : rest \in OrderByTimestampDesc(rows \ {r})} :
                 r \in {x \in rows : \A y \in rows : y.timestamp <= x.timestamp} }

\* LIMIT n
Limit(seq, n) == IF Len(seq) <= n THEN seq ELSE SubSeq(seq, 1, n)

\* The rows the query of App::get_transactions yields, in each order it may
\* yield them.
App_query(st) ==
    IF is_none(st.current_user) THEN {<<>>}
    ELSE {Limit(o, HISTORY_LIMIT) :
            o \in OrderByTimestampDesc(RowsWhere(st, unwrap(st.current_user)))}

\* The HashMap App::get_transactions builds of a row.
App_map(row) ==
    [type |-> row.transaction_type, amount |-> row.amount,
     recipient |-> unwrap_or_default(row.recipient),
     sender |-> unwrap_or_default(row.sender),
     previous_balance |-> row.previous_balance,
     new_balance |-> row.new_balance, timestamp |-> row.timestamp]

\* App::get_transactions: the Vec it may return.
App_get_transactions(st) ==
    {[i \in 1..Len(q) |-> App_map(q[i])] : q \in App_query(st)}

\* row.get::<_, String>(idx): rusqlite reads a String from a TEXT value
\* only; an INTEGER value is Err(InvalidColumnType).
get_String(value) ==
    IF value \in Int THEN [ok |-> FALSE, value |-> EmptyString]
    ELSE [ok |-> TRUE, value |-> value]

\* The closure of Transaction::get_user_transactions on one row: Err, Ok(None)
\* (the row is skipped) or Ok(Some(HashMap)).
Transaction_map(row, username) ==
    IF row.transaction_type = "transfer_in" /\ row.sender = Some(username)
    THEN [tag |-> "None"]
    ELSE IF ~get_String(row.id).ok THEN [tag |-> "Err"]
    ELSE [tag |-> "Some",
          map |-> [id |-> get_String(row.id).value,
                   type |-> row.transaction_type, amount |-> row.amount,
                   recipient |-> unwrap_or_default(row.recipient),
                   sender |-> unwrap_or_default(row.sender),
                   previous_balance |-> row.previous_balance,
                   new_balance |-> row.new_balance, timestamp |-> row.timestamp]]

\* The rows Transaction::get_user_transactions makes a HashMap of, in each
\* order the query may yield them: filter_map(Result::ok).flatten() drops
\* the rows whose closure is Err or Ok(None).
Transaction_query(st, username) ==
    {SelectSeq(o, LAMBDA row : Transaction_map(row, username).tag = "Some") :
        o \in OrderByTimestampDesc(RowsWhere(st, username))}

\* Transaction::get_user_transactions: the Vec it may return.
Transaction_get_user_transactions(st, username) ==
    {[i \in 1..Len(q) |-> Transaction_map(q[i], username).map] :
        q \in Transaction_query(st, username)}

\* AppController::get_transactions
Ctl_get_transactions(st) ==
    IF is_none(st.current_user) THEN {<<>>}
    ELSE Transaction_get_user_transactions(st, unwrap(st.current_user))

-----------------------------------------------------------------------------
(* The loop of main: clear_expired_messages, draw, event::read, dispatch.  *)
(* One step is one event: the time the read blocked passes, the handler    *)
(* runs, and the next iteration clears the expired messages and draws,     *)
(* which leaves the program blocked in the next read.                      *)

handle(st, key, now, fault, lag) ==
    IF variant = "App" THEN main_key(st, key, now, fault, lag)
    ELSE handle_input(st, key, now, fault, lag)

Commit(st) ==
    /\ users' = st.users
    /\ transactions' = st.transactions
    /\ current_state' = st.current_state
    /\ input' = st.input
    /\ transfer_recipient' = st.transfer_recipient
    /\ current_user' = st.current_user
    /\ messages' = st.messages
    /\ ret' = st.ret

\* `lag` is the time the handler takes between the two clock readings of
\* a transfer that writes both its rows; no other handler reads the clock
\* twice.
Event(key, d, fault, lag) ==
    /\ pc = "running"
    /\ clock + d + lag <= MaxClock
    /\ LET s0 == [Elapse(state, d) EXCEPT !.ret = NoCall]
           loop(r) ==
               /\ lag = 0 \/ r.st.ret = Call("transfer", "Ok(true)")
               /\ clock' = clock + d + lag
               /\ pc' = CASE r.flow = "continue" -> "running"
                          [] r.flow = "break" -> "exited"
                          [] r.flow = "err" -> "error"
                          [] r.flow = "panic" -> "panicked"
               /\ Commit(IF r.flow = "continue" THEN clear_expired_messages(r.st)
                         ELSE r.st)
       IN  loop(handle(s0, key, clock + d, fault, lag))
    /\ UNCHANGED variant

\* The prompt the screen shows: what the user means to type there.
Intended ==
    CASE current_state \in {"Login", "CreateAccount"} -> NameInputs
      [] current_state \in {"Deposit", "Withdraw"} -> AmountInputs
      [] current_state = "Transfer" ->
            IF is_none(transfer_recipient) THEN NameInputs ELSE AmountInputs
      [] OTHER -> {}

\* On a menu any character may be pressed; at a prompt the user types one
\* of the intended inputs.
MayType(c) ==
    \/ current_state \in {"MainMenu", "LoggedIn", "ViewTransactions"}
    \/ \E s \in Intended : IsPrefix(Append(input, c), s)

KeyEnter ==
    \E d \in Delays, fault \in Faults, lag \in Lags : Event(Enter, d, fault, lag)
KeyChar == \E d \in Delays, c \in KeyChars : MayType(c) /\ Event(Char(c), d, 0, 0)
KeyBackspace == \E d \in Delays : Event(Backspace, d, 0, 0)
KeyEsc == \E d \in Delays : Event(Esc, d, 0, 0)
KeyOther == \E d \in Delays : Event(OtherKey, d, 0, 0)

\* An event that is no key (mouse capture is on): the iteration only clears
\* and draws.
NonKeyEvent ==
    /\ pc = "running"
    /\ \E d \in Delays :
         /\ clock + d <= MaxClock
         /\ clock' = clock + d
         /\ Commit(clear_expired_messages([Elapse(state, d) EXCEPT !.ret = NoCall]))
    /\ UNCHANGED <<variant, pc>>

\* ewallet.db as the run finds it.  Connection::open creates the file when
\* it is not there and CREATE TABLE IF NOT EXISTS keeps the rows of an
\* earlier run; their timestamps lie before the start of this one.
\* A directory with no database.
EmptyStore == [users |-> <<>>, transactions |-> <<>>]

\* Left by a run that created a, deposited 1, then 2, and quit.
KeptStore ==
    [users |-> (<<"a">> :> 3),
     transactions |->
        << [id |-> 1, username |-> <<"a">>, transaction_type |-> "deposit",
            amount |-> 1, recipient |-> None, sender |-> None,
            previous_balance |-> 0, new_balance |-> 1, timestamp |-> 0 - 25],
           [id |-> 2, username |-> <<"a">>, transaction_type |-> "deposit",
            amount |-> 2, recipient |-> None, sender |-> None,
            previous_balance |-> 1, new_balance |-> 3, timestamp |-> 0 - 5] >>]

\* Left by a run of App that created b and a, deposited 2 and ended on a
\* storage error in the last INSERT of a transfer of 1 from a to b.
AbortedStore ==
    [users |-> (<<"a">> :> 1) @@ (<<"b">> :> 1),
     transactions |->
        << [id |-> 1, username |-> <<"a">>, transaction_type |-> "deposit",
            amount |-> 2, recipient |-> None, sender |-> None,
            previous_balance |-> 0, new_balance |-> 2, timestamp |-> 0 - 25],
           [id |-> 2, username |-> <<"a">>, transaction_type |-> "transfer_out",
            amount |-> 1, recipient |-> Some(<<"b">>), sender |-> Some(<<"a">>),
            previous_balance |-> 2, new_balance |-> 1, timestamp |-> 0 - 5] >>]

Stores == {EmptyStore, KeptStore, AbortedStore}

Init ==
    /\ variant \in {"App", "AppController"}
    /\ pc = "running"
    /\ \E store \in Stores :
          /\ users = store.users
          /\ transactions = store.transactions
    /\ current_state = "MainMenu"
    /\ input = EmptyString
    /\ transfer_recipient = None
    /\ current_user = None
    /\ messages = <<>>
    /\ clock = 0
    /\ ret = NoCall

Next ==
    \/ KeyEnter
    \/ KeyChar
    \/ KeyBackspace
    \/ KeyEsc
    \/ KeyOther
    \/ NonKeyEvent

Spec == Init /\ [][Next]_vars

-----------------------------------------------------------------------------
(* What a step did, read off the state before it and the call it made *)

RECURSIVE SumOver(_, _)
SumOver(f, S) ==
    IF S = {} THEN 0
    ELSE LET x == CHOOSE y \in S : TRUE IN f[x] + SumOver(f, S \ {x})

\* The sum of all account balances.
SumBalances(u) == SumOver(u, DOMAIN u)

\* The step called `name` and the call returned `value`.
Called(name, value) == ret'.call = name /\ ret'.value = value

\* The arguments of the call an Enter makes: the amount typed, the
\* authenticated account, the recipient captured before.
Amount == parse_f64(trim(input)).value
Sender == unwrap(current_user)
Recipient == unwrap(transfer_recipient)

LastRow(n) == transactions[Len(transactions) - n]

-----------------------------------------------------------------------------
(* Claims *)

\* C1 (as claimed): over every step that ends without a storage error, the
\* sum of all balances grows by the amount of a successful deposit, shrinks
\* by the amount of a successful withdrawal and is otherwise unchanged; in
\* particular a successful transfer leaves it unchanged.
C1_Conservation ==
    [][ret'.value # "Err" =>
          SumBalances(users') - SumBalances(users) =
             IF Called("deposit", "Ok") THEN Amount
             ELSE IF Called("withdraw", "Ok") THEN 0 - Amount
             ELSE 0]_vars

\* C2: no balance is ever negative, and a step that debits (a withdrawal
\* or a transfer that wrote anything) starts from a balance of the
\* authenticated account that is at least the amount.
C2_NoNegativeBalance ==
    /\ [](\A u \in DOMAIN users : users[u] >= 0)
    /\ [][(/\ ret'.call \in {"withdraw", "transfer"}
           /\ (users' # users \/ transactions' # transactions))
          => users[Sender] >= Amount]_vars

\* C2 witness: a withdrawal of the whole balance has been applied.
C2_Witness ==
    /\ ret = Call("withdraw", "Ok")
    /\ LastRow(0).transaction_type = "withdraw"
    /\ LastRow(0).amount > 0
    /\ users[unwrap(current_user)] = 0

\* C3 (as claimed): a successful transfer to the sender itself leaves the
\* balance as it was and appends a transfer_out and a transfer_in record of
\* that account.
C3_SelfTransfer ==
    [][(Called("transfer", "Ok(true)") /\ Recipient = Sender) =>
          /\ users'[Sender] = users[Sender]
          /\ Len(transactions') = Len(transactions) + 2
          /\ SubSeq(transactions', 1, Len(transactions)) = transactions
          /\ transactions'[Len(transactions) + 1].transaction_type = "transfer_out"
          /\ transactions'[Len(transactions) + 1].username = Sender
          /\ transactions'[Len(transactions) + 2].transaction_type = "transfer_in"
          /\ transactions'[Len(transactions) + 2].username = Sender]_vars

\* C4: a successful transfer from A to another account B takes the amount
\* from A's balance, adds it to B's, leaves every other balance alone and
\* appends exactly two records: transfer_out of A naming B as recipient,
\* then transfer_in of B naming A as sender, both with the amount.
C4_TransferEffect ==
    [][(Called("transfer", "Ok(true)") /\ Recipient # Sender) =>
          LET k == Len(transactions)
              out == transactions'[k + 1]
              in == transactions'[k + 2]
          IN  /\ users' = [users EXCEPT ![Sender] = @ - Amount,
                                        ![Recipient] = @ + Amount]
              /\ Len(transactions') = k + 2
              /\ SubSeq(transactions', 1, k) = transactions
              /\ out.username = Sender
              /\ out.transaction_type = "transfer_out"
              /\ out.recipient = Some(Recipient)
              /\ out.amount = Amount
              /\ in.username = Recipient
              /\ in.transaction_type = "transfer_in"
              /\ in.sender = Some(Sender)
              /\ in.amount = Amount]_vars

\* C4 witness: a transfer of a positive amount between two accounts has
\* just succeeded.
C4_Witness ==
    /\ ret = Call("transfer", "Ok(true)")
    /\ LastRow(1).transaction_type = "transfer_out"
    /\ LastRow(0).transaction_type = "transfer_in"
    /\ LastRow(1).username # LastRow(0).username
    /\ LastRow(0).amount > 0
    /\ users[LastRow(1).username] > 0

\* C5: a transfer that returns failure changes no balance and appends no
\* record.
C5_FailedTransfer ==
    [][Called("transfer", "Ok(false)") =>
          users' = users /\ transactions' = transactions]_vars

\* C5 witness: a transfer has failed for lack of funds with money and
\* records in the ledger.
C5_Witness ==
    /\ ret = Call("transfer", "Ok(false)")
    /\ transactions # <<>>
    /\ \E u \in DOMAIN users : users[u] > 0
    /\ messages # <<>>
    /\ messages[Len(messages)].text.fmt \in
          {"Insufficient funds for transfer.",
           "Transfer failed. Insufficient funds. Your balance: ${:.2}"}

\* How many of the rows of q are the row with this id.
Count(q, id) == Cardinality({i \in 1..Len(q) : q[i].id = id})

\* C6 (as claimed): right after a successful transfer of App from A to
\* another account B, with A still authenticated, every history
\* get_transactions may return holds exactly one record of that transfer,
\* its transfer_out, and not its transfer_in.
C6_AppHistory ==
    (/\ variant = "App"
     /\ ret = Call("transfer", "Ok(true)")
     /\ LastRow(1).username # LastRow(0).username)
    => \A q \in App_query(state) :
          /\ Count(q, LastRow(1).id) = 1
          /\ Count(q, LastRow(0).id) = 0

\* C7 (as claimed): right after a successful transfer of AppController from
\* A to B, every history of A holds the transfer exactly once, as its
\* transfer_out, every history of B holds it exactly once, as its
\* transfer_in, and no history of any account holds a transfer_in whose
\* sender is that account.
C7_RepositoryHistory ==
    (variant = "AppController" /\ ret = Call("transfer", "Ok(true)"))
    => /\ \A q \in Transaction_query(state, LastRow(1).username) :
             /\ Count(q, LastRow(1).id) + Count(q, LastRow(0).id) = 1
             /\ Count(q, LastRow(1).id) = 1
       /\ \A q \in Transaction_query(state, LastRow(0).username) :
             /\ Count(q, LastRow(1).id) + Count(q, LastRow(0).id) = 1
             /\ Count(q, LastRow(0).id) = 1
       /\ \A u \in DOMAIN users : \A q \in Transaction_query(state, u) :
             \A i \in 1..Len(q) :
                ~(q[i].transaction_type = "transfer_in" /\ q[i].sender = Some(u))

\* C8 (as claimed): a step in which a statement of deposit, withdraw or
\* transfer fails with a storage error persists none of the writes of that
\* operation.
C8_AllOrNothing ==
    [][(ret'.call \in {"deposit", "withdraw", "transfer"} /\ ret'.value = "Err")
          => users' = users /\ transactions' = transactions]_vars

\* C9: a successful deposit (withdrawal) sets the balance of the
\* authenticated account to the balance before plus (minus) the amount and
\* appends exactly one record: of that kind, owned by that account, with the
\* amount, without counterparty, and with the balance before and the balance
\* after the operation as its snapshots.
C9_DepositWithdrawEffect ==
    [][(Called("deposit", "Ok") \/ Called("withdraw", "Ok")) =>
          LET k == Len(transactions)
              new == transactions'[k + 1]
          IN  /\ users'[Sender] = IF ret'.call = "deposit"
                                  THEN users[Sender] + Amount
                                  ELSE users[Sender] - Amount
              /\ Len(transactions') = k + 1
              /\ SubSeq(transactions', 1, k) = transactions
              /\ new.username = Sender
              /\ new.transaction_type = ret'.call
              /\ new.amount = Amount
              /\ new.recipient = None
              /\ new.sender = None
              /\ new.previous_balance = users[Sender]
              /\ new.new_balance = users'[Sender]]_vars

\* C9 witness: a withdrawal of part of the balance has just succeeded.
C9_Witness ==
    /\ ret = Call("withdraw", "Ok")
    /\ LastRow(0).transaction_type = "withdraw"
    /\ LastRow(0).previous_balance = 2
    /\ LastRow(0).new_balance = 1
    /\ users[unwrap(current_user)] = 1

\* C10: an Enter on the Withdraw screen with a valid amount above the
\* balance of the authenticated account ends as insufficient funds: no
\* withdrawal is made, the message says so, no balance changes and no record
\* is appended.
C10_InsufficientFunds ==
    [][(/\ current_state = "Withdraw"
        /\ ret'.call # "none"
        /\ ret'.value # "Err"
        /\ Amount > users[Sender])
       => /\ Called("can_withdraw", "Ok(false)")
          /\ users' = users
          /\ transactions' = transactions
          /\ messages' # <<>>
          /\ messages'[Len(messages')].text = Text("Insufficient funds.", <<>>)]_vars

\* C10 witness: a withdrawal of more than a positive balance was refused.
C10_Witness ==
    /\ ret = Call("can_withdraw", "Ok(false)")
    /\ users[unwrap(current_user)] = 1
    /\ messages # <<>>
    /\ messages[Len(messages)].text = Text("Insufficient funds.", <<>>)

-----------------------------------------------------------------------------
(* Outcomes as the user is told them *)

RecipientNotFound ==
    {"Recipient '{}' does not exist.", "Transfer failed. Recipient '{}' not found."}
InvalidAmount ==
    {"Invalid amount entered.", "Invalid amount. Please enter a positive number.",
     "Invalid amount. Please enter a valid number."}
InsufficientFunds ==
    {"Insufficient funds.", "Insufficient funds for transfer.",
     "Transfer failed. Insufficient funds. Your balance: ${:.2}"}

\* The step added a message of one of these formats as its last message.
Reported(fmts) ==
    /\ messages' # <<>>
    /\ messages'[Len(messages')].age = 0
    /\ messages'[Len(messages')].text.fmt \in fmts

LedgerUnchanged == users' = users /\ transactions' = transactions

\* The amount typed parses to a number.
AmountOk == parse_f64(trim(input)).ok

\* C11 (as claimed): an Enter that submits a transfer (Transfer screen,
\* recipient captured, amount a number) by the authenticated account reports
\* the earliest failing check of: recipient exists, amount > 0, balance >=
\* amount; and a failing check leaves the ledger unchanged.
C11_TransferCheckOrder ==
    [][(/\ KeyEnter
        /\ current_state = "Transfer"
        /\ ~is_none(transfer_recipient)
        /\ ~is_none(current_user)
        /\ AmountOk
        /\ ret'.value # "Err")
       => IF Recipient \notin DOMAIN users
          THEN Reported(RecipientNotFound) /\ LedgerUnchanged
          ELSE IF Amount <= 0
          THEN Reported(InvalidAmount) /\ LedgerUnchanged
          ELSE IF users[Sender] < Amount
          THEN Reported(InsufficientFunds) /\ LedgerUnchanged
          ELSE TRUE]_vars

-----------------------------------------------------------------------------
(* The same program with a keyboard that also types the amount 0 *)

KeyCharsZero == KeyChars \cup {"0"}
AmountInputsZero == {<<"0">>, <<"1">>, <<"-", "1">>}

IntendedZero ==
    CASE current_state \in {"Login", "CreateAccount"} -> NameInputs
      [] current_state \in {"Deposit", "Withdraw"} -> AmountInputsZero
      [] current_state = "Transfer" ->
            IF is_none(transfer_recipient) THEN NameInputs ELSE AmountInputsZero
      [] OTHER -> {}

MayTypeZero(c) ==
    \/ current_state \in {"MainMenu", "LoggedIn", "ViewTransactions"}
    \/ \E s \in IntendedZero : IsPrefix(Append(input, c), s)

KeyCharZero ==
    \E d \in Delays, c \in KeyCharsZero : MayTypeZero(c) /\ Event(Char(c), d, 0, 0)

NextZero ==
    \/ KeyEnter
    \/ KeyCharZero
    \/ KeyBackspace
    \/ KeyEsc
    \/ KeyOther
    \/ NonKeyEvent

SpecZero == Init /\ [][NextZero]_vars

\* C12 (as claimed): an Enter that submits a deposit, a withdrawal or a
\* transfer whose amount is a number <= 0 is refused as an invalid amount,
\* changes no balance and appends no record.
C12_InvalidAmountRejected ==
    [][(/\ KeyEnter
        /\ \/ current_state \in {"Deposit", "Withdraw"}
           \/ current_state = "Transfer" /\ ~is_none(transfer_recipient)
        /\ AmountOk
        /\ Amount <= 0
        /\ ret'.value # "Err")
       => Reported(InvalidAmount) /\ LedgerUnchanged]_vars

\* C13: an Enter on the Login screen with a non-empty input calls login with
\* that input; short of a storage error the call succeeds exactly when an
\* account of that name exists; on success the current user is that name
\* and the screen is LoggedIn, on failure both are as before.
C13_Login ==
    [][(current_state = "Login" /\ input # EmptyString /\ KeyEnter
          /\ ret'.value # "Err")
       => /\ ret'.call = "login"
          /\ IF input \in DOMAIN users
             THEN /\ ret'.value = "Ok(true)"
                  /\ current_user' = Some(input)
                  /\ current_state' = "LoggedIn"
             ELSE /\ ret'.value = "Ok(false)"
                  /\ current_user' = current_user
                  /\ current_state' = current_state
          /\ LedgerUnchanged]_vars

\* C13 witness: with two accounts in the store, a login into the one that
\* was not created last has just succeeded.
C13_Witness ==
    /\ ret = Call("login", "Ok(true)")
    /\ current_state = "LoggedIn"
    /\ Cardinality(DOMAIN users) = 2
    /\ \E u \in DOMAIN users : current_user = Some(u) /\ users[u] > 0

\* C14: an Enter on the CreateAccount screen with a non-empty input calls
\* create_account with it; short of a storage error the call fails exactly
\* when an account of that name exists, and then says so and leaves every
\* balance, the current user and the screen as they were; otherwise the
\* store gains exactly that account with balance 0, which becomes the
\* current user on the LoggedIn screen.
C14_CreateAccount ==
    [][(current_state = "CreateAccount" /\ input # EmptyString /\ KeyEnter
          /\ ret'.value # "Err")
       => /\ ret'.call = "create_account"
          /\ transactions' = transactions
          /\ IF input \in DOMAIN users
             THEN /\ ret'.value = "Ok(false)"
                  /\ Reported({"Username already exists. Please choose a different username."})
                  /\ users' = users
                  /\ current_user' = current_user
                  /\ current_state' = current_state
             ELSE /\ ret'.value = "Ok(true)"
                  /\ DOMAIN users' = DOMAIN users \cup {input}
                  /\ users'[input] = 0
                  /\ \A u \in DOMAIN users : users'[u] = users[u]
                  /\ current_user' = Some(input)
                  /\ current_state' = "LoggedIn"]_vars

\* C14 witness: the creation of an account whose name is taken by an
\* account with a positive balance has just been refused.
C14_Witness ==
    /\ ret = Call("create_account", "Ok(false)")
    /\ current_state = "CreateAccount"
    /\ input \in DOMAIN users
    /\ users[input] > 0

\* logout of the implementation that runs
logout(st) == IF variant = "App" THEN App_logout(st) ELSE Ctl_logout(st)

\* The program state of a record st: everything but the ghost ret.
ProgramState(st) ==
    <<st.users, st.transactions, st.current_state, st.input,
      st.transfer_recipient, st.current_user, st.messages>>

\* C15 (as claimed): in every reachable state, the program state after two
\* calls of logout in a row is the program state after one.
C15_LogoutIdempotent_Original ==
    ProgramState(logout(logout(state))) = ProgramState(logout(state))

\* C15 (amended): in every reachable state logout returns (it has no
\* Result) with the session Anonymous on the MainMenu screen, and a second
\* call in a row changes nothing but the message list, which gains one more
\* "Logged out successfully.".
C15_LogoutIdempotent ==
    LET once == logout(state)
        twice == logout(once)
    IN  /\ once.ret = Call("logout", "()")
        /\ once.current_user = None
        /\ once.current_state = "MainMenu"
        /\ twice.current_user = once.current_user
        /\ twice.current_state = once.current_state
        /\ twice.input = once.input
        /\ twice.transfer_recipient = once.transfer_recipient
        /\ twice.users = once.users /\ once.users = users
        /\ twice.transactions = once.transactions
        /\ once.transactions = transactions
        /\ twice.messages =
              Append(once.messages,
                     [text |-> Text("Logged out successfully.", <<>>), age |-> 0])

\* C15 witness: key 5 has just logged out an account that has a history.
C15_Witness ==
    /\ ret = Call("logout", "()")
    /\ current_user = None
    /\ current_state = "MainMenu"
    /\ transactions # <<>>
    /\ messages # <<>>

\* get_balance / get_transactions of the implementation that runs
get_balance(st) ==
    IF variant = "App" THEN App_get_balance(st) ELSE Ctl_get_balance(st)
get_transactions(st) ==
    IF variant = "App" THEN App_get_transactions(st) ELSE Ctl_get_transactions(st)

\* C16: in every reachable state without an authenticated account
\* get_balance is 0 and the only history get_transactions may return is the
\* empty one; with an authenticated account get_balance is the balance
\* stored for that account.
C16_ReadsWhileUnauthenticated ==
    IF is_none(current_user)
    THEN get_balance(state) = 0 /\ get_transactions(state) = {<<>>}
    ELSE get_balance(state) = users[unwrap(current_user)]

\* C16 witness: nobody is authenticated while the store holds an account
\* with a positive balance and records.
C16_Witness ==
    /\ is_none(current_user)
    /\ transactions # <<>>
    /\ \E u \in DOMAIN users : users[u] > 0

\* The balance change a record stands for.
Delta(row) ==
    IF row.transaction_type \in {"deposit", "transfer_in"} THEN row.amount
    ELSE 0 - row.amount

\* The sum of the deltas of the first n records that username owns.
RECURSIVE SumDeltas(_, _, _)
SumDeltas(log, username, n) ==
    IF n = 0 THEN 0
    ELSE SumDeltas(log, username, n - 1)
            + (IF log[n].username = username THEN Delta(log[n]) ELSE 0)

\* C17 (as claimed): in every reachable state the balance of each account is
\* the sum of the deltas of the records it owns.
C17_BalanceIsSumOfDeltas ==
    \A u \in DOMAIN users :
        users[u] = SumDeltas(transactions, u, Len(transactions))

\* The screen changes the interaction state machine allows.
Transitions ==
    {<<"MainMenu", "Login">>, <<"MainMenu", "CreateAccount">>,
     <<"Login", "LoggedIn">>, <<"CreateAccount", "LoggedIn">>,
     <<"Login", "MainMenu">>, <<"CreateAccount", "MainMenu">>,
     <<"LoggedIn", "Deposit">>, <<"LoggedIn", "Withdraw">>,
     <<"LoggedIn", "Transfer">>, <<"LoggedIn", "ViewTransactions">>,
     <<"LoggedIn", "MainMenu">>,
     <<"Deposit", "LoggedIn">>, <<"Withdraw", "LoggedIn">>,
     <<"Transfer", "LoggedIn">>, <<"ViewTransactions", "LoggedIn">>}

\* C18: the program starts on MainMenu; every step that changes the screen
\* makes one of the allowed changes; Login (CreateAccount) leaves for
\* LoggedIn only by a successful login (create_account) and for MainMenu
\* only by Esc; LoggedIn leaves for MainMenu only by logout; so a ledger
\* screen is shown only to an authenticated session.
C18_ScreenStateMachine ==
    /\ [][current_state' # current_state =>
            /\ <<current_state, current_state'>> \in Transitions
            /\ (current_state = "Login" /\ current_state' = "LoggedIn")
                  => ret' = Call("login", "Ok(true)")
            /\ (current_state = "CreateAccount" /\ current_state' = "LoggedIn")
                  => ret' = Call("create_account", "Ok(true)")
            /\ (current_state \in {"Login", "CreateAccount"}
                  /\ current_state' = "MainMenu") => KeyEsc
            /\ (current_state = "LoggedIn" /\ current_state' = "MainMenu")
                  => ret' = Call("logout", "()")]_vars
    /\ [](current_state \in {"LoggedIn", "Deposit", "Withdraw", "Transfer",
                             "ViewTransactions"} => ~is_none(current_user))

\* C18 witness: a session that went through the ledger screens is back on
\* MainMenu by logout.
C18_Witness ==
    /\ current_state = "MainMenu"
    /\ ret = Call("logout", "()")
    /\ Len(transactions) >= 3

\* C19 (as claimed): on the Transfer screen an Enter without a captured
\* recipient only captures the input as the recipient and clears the input
\* (no ledger call, no ledger change); transfer is called only by an Enter
\* on the Transfer screen with a recipient captured and an input that is a
\* valid amount, a number above zero; Esc, with or without a captured
\* recipient, returns to LoggedIn with recipient and input cleared, no
\* ledger call and no ledger change.
C19_TransferSubFlow ==
    [][/\ (current_state = "Transfer" /\ is_none(transfer_recipient) /\ KeyEnter)
             => /\ transfer_recipient' = Some(input)
                /\ input' = EmptyString
                /\ current_state' = "Transfer"
                /\ ret' = NoCall
                /\ LedgerUnchanged
       /\ (ret'.call = "transfer")
             => /\ KeyEnter
                /\ current_state = "Transfer"
                /\ ~is_none(transfer_recipient)
                /\ AmountOk /\ Amount > 0
       /\ (current_state = "Transfer" /\ KeyEsc)
             => /\ current_state' = "LoggedIn"
                /\ transfer_recipient' = None
                /\ input' = EmptyString
                /\ ret' = NoCall
                /\ LedgerUnchanged]_vars


-----------------------------------------------------------------------------
(* The loop of main against the clock: an event is handled the instant it   *)
(* arrives, and between events seconds pass while event::read() blocks.     *)

\* Messages the list may hold in the timed specification.
MaxMessages == 2

\* Seconds the timed run is followed for.
MaxTime == 10

TimedEvent(key, fault, lag) ==
    /\ Event(key, 0, fault, lag)
    /\ Len(transactions') <= MaxLog
    /\ Len(messages') <= MaxMessages

\* What the user types in the timed specification: one name, one amount.
TimedIntended ==
    CASE current_state \in {"Login", "CreateAccount"} -> {<<"a">>}
      [] current_state \in {"Deposit", "Withdraw"} -> {<<"1">>}
      [] current_state = "Transfer" ->
            IF is_none(transfer_recipient) THEN {<<"a">>} ELSE {<<"1">>}
      [] OTHER -> {}

TimedMayType(c) ==
    \/ current_state \in {"MainMenu", "LoggedIn", "ViewTransactions"}
    \/ \E s \in TimedIntended : IsPrefix(Append(input, c), s)

\* The store does not fail in the timed specification.
TimedEnter == \E lag \in Lags : TimedEvent(Enter, 0, lag)
TimedChar == \E c \in KeyChars : TimedMayType(c) /\ TimedEvent(Char(c), 0, 0)
TimedBackspace == TimedEvent(Backspace, 0, 0)
TimedEsc == TimedEvent(Esc, 0, 0)
TimedOther == TimedEvent(OtherKey, 0, 0)

\* An event that is no key: the next iteration clears and draws.
TimedNonKey ==
    /\ pc = "running"
    /\ Commit(clear_expired_messages([state EXCEPT !.ret = NoCall]))
    /\ UNCHANGED <<variant, pc, clock>>

\* A second passes in event::read(): nothing runs, the wall clock and every
\* Instant are a second on.
Tick ==
    /\ pc = "running"
    /\ clock < MaxTime
    /\ clock' = clock + 1
    /\ messages' = Elapse(state, 1).messages
    /\ ret' = NoCall
    /\ UNCHANGED <<variant, pc, users, transactions, current_state, input,
                   transfer_recipient, current_user>>

\* main runs App, started in a directory with no database.
InitTimed == Init /\ variant = "App" /\ users = EmptyStore.users

NextTimed ==
    \/ TimedEnter
    \/ TimedChar
    \/ TimedBackspace
    \/ TimedEsc
    \/ TimedOther
    \/ TimedNonKey
    \/ Tick

SpecTimed == InitTimed /\ [][NextTimed]_vars

\* The message the screen shows: draw_messages renders messages.last().
Displayed == IF messages = <<>> THEN None ELSE Some(messages[Len(messages)])

\* C20 (as claimed): no message is on the screen once MESSAGE_TIMEOUT
\* seconds have passed since it was added, whether or not an event arrives;
\* and no step removes a message that is younger than MESSAGE_TIMEOUT when
\* the step ends.
C20_MessageExpiry ==
    /\ [](~is_none(Displayed) => unwrap(Displayed).age < MESSAGE_TIMEOUT)
    /\ [][\A i \in 1..Len(messages) :
             messages[i].age + (clock' - clock) < MESSAGE_TIMEOUT =>
                \E j \in 1..Len(messages') :
                   /\ messages'[j].text = messages[i].text
                   /\ messages'[j].age = messages[i].age + (clock' - clock)]_vars

-----------------------------------------------------------------------------
(* Errors and the loop *)

UserNotFound == {"User does not exist. Please try again."}
AlreadyExists == {"Username already exists. Please choose a different username."}

\* The calls of the key dispatch that return a rusqlite Result.
StorageCalls ==
    {"login", "create_account", "deposit", "can_withdraw", "withdraw", "transfer"}

\* C21: a step in which one of the ledger calls returns a storage error ends
\* the loop with that error; the loop ends with an error in no other step;
\* and a step that reports UserNotFound, AlreadyExists, RecipientNotFound,
\* InvalidAmount or InsufficientFunds leaves the loop running.
C21_OnlyStorageFailureAborts ==
    [][/\ ret'.value = "Err" => pc' = "error" /\ ret'.call \in StorageCalls
       /\ (pc = "running" /\ pc' = "error") => ret'.value = "Err"
       /\ Reported(UserNotFound \cup AlreadyExists \cup RecipientNotFound
                     \cup InvalidAmount \cup InsufficientFunds)
             => pc' = "running" /\ ret'.value # "Err"]_vars

\* C21 witness: the loop has ended on the storage error of a withdrawal that
\* had passed can_withdraw.
C21_Witness ==
    /\ pc = "error"
    /\ ret = Call("withdraw", "Err")
    /\ current_state = "Withdraw"

-----------------------------------------------------------------------------
(* The log *)

\* C22: every step leaves every record of the log in place and unchanged
\* (the log of the later state begins with the log of the earlier one), and
\* in every reachable state the ids of the records rise strictly in
\* insertion order.
C22_AppendOnlyLog ==
    /\ [][/\ Len(transactions') >= Len(transactions)
          /\ SubSeq(transactions', 1, Len(transactions)) = transactions]_vars
    /\ [](\A i, j \in 1..Len(transactions) :
             i < j => transactions[i].id < transactions[j].id)

\* C22 witness: a transfer has just appended its two records behind an
\* earlier record.
C22_Witness ==
    /\ ret = Call("transfer", "Ok(true)")
    /\ Len(transactions) = 3
    /\ LastRow(2).transaction_type = "deposit"
    /\ LastRow(1).transaction_type = "transfer_out"
    /\ LastRow(0).transaction_type = "transfer_in"

\* The records username owns, in insertion order.
Owned(username) == SelectSeq(transactions, LAMBDA row : row.username = username)

\* C23 (as claimed): while the program runs, for every account the records
\* it owns chain: the first starts from 0, each next one starts from the
\* new_balance of the one before, and the last one ends at the stored
\* balance.
C23_AuditChain ==
    pc # "error" =>
      \A u \in DOMAIN users :
        LET own == Owned(u)
        IN  /\ \A i \in 1..Len(own) :
                  own[i].previous_balance =
                      IF i = 1 THEN 0 ELSE own[i - 1].new_balance
            /\ own # <<>> => own[Len(own)].new_balance = users[u]

-----------------------------------------------------------------------------
(* History views *)

\* The rows the history query of the implementation that runs may yield for
\* the authenticated account, in each order it may yield them.
history_query ==
    IF variant = "App" THEN App_query(state)
    ELSE IF is_none(current_user) THEN {<<>>}
    ELSE Transaction_query(state, unwrap(current_user))

\* C24 (as claimed): right after a successful transfer, the two records of
\* which carry the same timestamp, no history the authenticated account may
\* be given shows the transfer_out (inserted first) before the transfer_in
\* (inserted second).
C24_NewestFirst ==
    ret = Call("transfer", "Ok(true)") =>
       \A q \in history_query :
          \A i, j \in 1..Len(q) :
             (q[i].id = LastRow(1).id /\ q[j].id = LastRow(0).id) => j < i

\* The ids of the n most recently inserted records username owns.
MostRecentOwn(username, n) ==
    LET own == Owned(username)
        k == IF Len(own) <= n THEN Len(own) ELSE n
    IN  {own[i].id : i \in (Len(own) - k + 1)..Len(own)}

\* C25 (as claimed): with an account authenticated, every history App may
\* return has at most HISTORY_LIMIT records and they are the most recent
\* min(n, HISTORY_LIMIT) records the account owns; every history the
\* repository may return holds all records the account owns.
C25_BoundedHistory ==
    ~is_none(current_user) =>
       \A q \in history_query :
          /\ variant = "App" =>
                /\ Len(q) <= HISTORY_LIMIT
                /\ {q[i].id : i \in 1..Len(q)} =
                      MostRecentOwn(unwrap(current_user), HISTORY_LIMIT)
          /\ variant = "AppController" =>
                {q[i].id : i \in 1..Len(q)} =
                   MostRecentOwn(unwrap(current_user), Len(transactions))

-----------------------------------------------------------------------------
(* Frames and recovery *)

\* C26 (as claimed): a step changes the balance of an existing account or
\* the log only if a deposit, a withdrawal or a transfer succeeded in it;
\* a deposit or withdrawal changes no balance but that of the authenticated
\* account, a transfer none but those of sender and recipient; and no
\* account is ever removed.
C26_LedgerFrame ==
    [][/\ DOMAIN users \subseteq DOMAIN users'
       /\ ((\E u \in DOMAIN users : users'[u] # users[u])
             \/ transactions' # transactions)
          => \/ Called("deposit", "Ok")
             \/ Called("withdraw", "Ok")
             \/ Called("transfer", "Ok(true)")
       /\ ret'.call \in {"deposit", "withdraw"}
          => \A u \in DOMAIN users : u # Sender => users'[u] = users[u]
       /\ ret'.call = "transfer"
          => \A u \in DOMAIN users :
                u \notin {Sender, Recipient} => users'[u] = users[u]]_vars

\* C27 (as claimed): a step in which the submitted transfer fails (recipient
\* not found, insufficient funds) adds a message and ends on the LoggedIn
\* screen with the input and the captured recipient cleared.
C27_FailedTransferRecovery ==
    [][Called("transfer", "Ok(false)")
         => /\ Reported(RecipientNotFound \cup InsufficientFunds)
            /\ current_state' = "LoggedIn"
            /\ input' = EmptyString
            /\ transfer_recipient' = None]_vars

-----------------------------------------------------------------------------
(* Session and buffers *)

LedgerScreens == {"LoggedIn", "Deposit", "Withdraw", "Transfer", "ViewTransactions"}

\* C28: in every reachable state current_user is set exactly when the
\* screen is LoggedIn, Deposit, Withdraw, Transfer or ViewTransactions (so
\* it is absent on MainMenu, Login and CreateAccount), and when set it names
\* an account of the store.
C28_SessionScreenConsistency ==
    /\ ~is_none(current_user) <=> current_state \in LedgerScreens
    /\ ~is_none(current_user) => unwrap(current_user) \in DOMAIN users

\* C28 witness: a second session, of another account, is on a ledger
\* screen after the first one was logged out.
C28_Witness ==
    /\ current_state = "ViewTransactions"
    /\ current_user = Some(<<"b">>)
    /\ Cardinality(DOMAIN users) = 2
    /\ users[<<"a">>] > 0

\* C29: in every reachable state a recipient is captured only on the
\* Transfer screen, and the input is empty on MainMenu, LoggedIn and
\* ViewTransactions.
C29_InputHygiene ==
    /\ ~is_none(transfer_recipient) => current_state = "Transfer"
    /\ current_state \in {"MainMenu", "LoggedIn", "ViewTransactions"}
          => input = EmptyString

\* C29 witness: back on LoggedIn, buffers empty, after a transfer whose
\* recipient and amount were typed.
C29_Witness ==
    /\ current_state = "LoggedIn"
    /\ ret = Call("transfer", "Ok(true)")
    /\ input = EmptyString
    /\ transfer_recipient = None
    /\ LastRow(0).username # LastRow(1).username

-----------------------------------------------------------------------------
(* Leaving the program *)

\* What the dispatch makes of `key` pressed now, d seconds after the last
\* event, with the store working.
Pressed(key, d) ==
    handle([Elapse(state, d) EXCEPT !.ret = NoCall], key, clock + d, 0, 0)

\* The key that leads towards the exit from a screen: 'q' on MainMenu, '5'
\* (logout) on LoggedIn, Esc elsewhere.
QuitKey ==
    CASE current_state = "MainMenu" -> Char("q")
      [] current_state = "LoggedIn" -> Char("5")
      [] OTHER -> Esc

\* Keys still to press from a screen to the exit.
Distance(screen) ==
    CASE screen = "MainMenu" -> 1
      [] screen \in {"Login", "CreateAccount", "LoggedIn"} -> 2
      [] OTHER -> 3

\* C30: the loop ends normally only in a step that handles 'q' on MainMenu;
\* on every other screen 'q' leaves the loop running and changes at most the
\* input, by appending itself; and in every running state the QuitKey of the
\* screen works without a change of balance or log and either ends the loop
\* (MainMenu) or leads to a screen nearer to the exit, so at most three keys
\* end the loop from anywhere.
C30_ExitReachable ==
    /\ [][(pc = "running" /\ pc' = "exited")
            => /\ current_state = "MainMenu"
               /\ \E d \in Delays : Event(Char("q"), d, 0, 0)]_vars
    /\ [](pc = "running" /\ current_state # "MainMenu"
            => \A d \in Delays :
                 LET s0 == [Elapse(state, d) EXCEPT !.ret = NoCall]
                     r == Pressed(Char("q"), d)
                 IN  /\ r.flow = "continue"
                     /\ r.st \in {s0, [s0 EXCEPT !.input = Append(@, "q")]})
    /\ [](pc = "running"
            => \A d \in Delays :
                 LET r == Pressed(QuitKey, d)
                 IN  /\ r.st.users = users
                     /\ r.st.transactions = transactions
                     /\ IF current_state = "MainMenu" THEN r.flow = "break"
                        ELSE /\ r.flow = "continue"
                             /\ Distance(r.st.current_state)
                                   < Distance(current_state))

\* C30 witness: the loop has ended by 'q' after a session that left money
\* on an account.
C30_Witness ==
    /\ pc = "exited"
    /\ current_state = "MainMenu"
    /\ transactions # <<>>
    /\ \E u \in DOMAIN users : users[u] > 0

-----------------------------------------------------------------------------
(* The ledger interface called directly: a client of App or of             *)
(* AppController that calls the public methods in any order, with          *)
(* arguments of its own, and lets any time pass between two calls.         *)

\* Seconds the client is followed for.
MaxApiClock == 10

ApiNames == {<<"a">>, <<"b">>}
ApiAmounts == {1, NaN}
ApiTexts == {"hello"}

ApiCall(op, username, amount) == [op |-> op, username |-> username, amount |-> amount]

ApiCalls ==
    {ApiCall(op, u, 0) : op \in {"login", "create_account"}, u \in ApiNames}
    \cup {ApiCall("logout", EmptyString, 0)}
    \cup {ApiCall(op, EmptyString, a) :
            op \in {"deposit", "withdraw", "can_withdraw"}, a \in ApiAmounts}
    \cup {ApiCall("transfer", u, a) : u \in ApiNames, a \in ApiAmounts}

\* One call on App; `lag` as in App::transfer
App_call(st, c, lag) ==
    CASE c.op = "login" -> App_login(st, c.username, 0)
      [] c.op = "create_account" -> App_create_account(st, c.username, 0)
      [] c.op = "logout" -> App_logout(st)
      [] c.op = "deposit" -> App_deposit(st, c.amount, clock, 0)
      [] c.op = "withdraw" -> App_withdraw(st, c.amount, clock, 0)
      [] c.op = "can_withdraw" -> App_can_withdraw(st, c.amount, 0).st
      [] c.op = "transfer" -> App_transfer(st, c.username, c.amount, clock, 0, lag)

\* The same call on AppController
Ctl_call(st, c, lag) ==
    CASE c.op = "login" -> Ctl_login(st, c.username, 0)
      [] c.op = "create_account" -> Ctl_create_account(st, c.username, 0)
      [] c.op = "logout" -> Ctl_logout(st)
      [] c.op = "deposit" -> Ctl_deposit(st, c.amount, clock, 0, literal_id(st, 1))
      [] c.op = "withdraw" -> Ctl_withdraw(st, c.amount, clock, 0, literal_id(st, 1))
      [] c.op = "can_withdraw" -> Ctl_can_withdraw(st, c.amount, 0).st
      [] c.op = "transfer" ->
            Ctl_transfer(st, c.username, c.amount, clock, 0, lag,
                         literal_id(st, 1), literal_id(st, 2))

\* A call of a ledger method, made at the second `clock`; a transfer that
\* writes both its rows returns `lag` seconds later.
Api(c, lag) ==
    /\ pc = "running"
    /\ clock + lag <= MaxApiClock
    /\ LET returned(r) ==
               /\ lag = 0 \/ r.ret = Call("transfer", "Ok(true)")
               /\ Len(r.transactions) <= MaxLog
               /\ Len(r.messages) <= MaxMessages
               /\ Commit(r)
       IN  returned(IF variant = "App"
                    THEN App_call([state EXCEPT !.ret = NoCall], c, lag)
                    ELSE Ctl_call([state EXCEPT !.ret = NoCall], c, lag))
    /\ clock' = clock + lag
    /\ UNCHANGED <<variant, pc>>

ApiLogin == \E u \in ApiNames : Api(ApiCall("login", u, 0), 0)
ApiCreateAccount == \E u \in ApiNames : Api(ApiCall("create_account", u, 0), 0)
ApiLogout == Api(ApiCall("logout", EmptyString, 0), 0)
ApiDeposit == \E a \in ApiAmounts : Api(ApiCall("deposit", EmptyString, a), 0)
ApiWithdraw == \E a \in ApiAmounts : Api(ApiCall("withdraw", EmptyString, a), 0)
ApiCanWithdraw ==
    \E a \in ApiAmounts : Api(ApiCall("can_withdraw", EmptyString, a), 0)
ApiTransfer ==
    \E u \in ApiNames, a \in ApiAmounts, lag \in Lags :
        Api(ApiCall("transfer", u, a), lag)

\* The public add_message
ApiAddMessage ==
    /\ pc = "running"
    /\ Len(messages) < MaxMessages
    /\ \E text \in ApiTexts :
          Commit(add_message([state EXCEPT !.ret = NoCall], Text(text, <<>>)))
    /\ UNCHANGED <<variant, pc, clock>>

\* The public clear_expired_messages
ApiClearExpiredMessages ==
    /\ pc = "running"
    /\ Commit(clear_expired_messages([state EXCEPT !.ret = NoCall]))
    /\ UNCHANGED <<variant, pc, clock>>

\* The client lets d seconds pass.
ApiWait ==
    /\ pc = "running"
    /\ \E d \in Delays :
          /\ clock + d <= MaxApiClock
          /\ clock' = clock + d
          /\ Commit([Elapse(state, d) EXCEPT !.ret = NoCall])
    /\ UNCHANGED <<variant, pc>>

NextApi ==
    \/ ApiLogin
    \/ ApiCreateAccount
    \/ ApiLogout
    \/ ApiDeposit
    \/ ApiWithdraw
    \/ ApiCanWithdraw
    \/ ApiTransfer
    \/ ApiAddMessage
    \/ ApiClearExpiredMessages
    \/ ApiWait

SpecApi == Init /\ [][NextApi]_vars

\* The store and session a call starts from; no call made yet.
BeforeCall == [state EXCEPT !.ret = NoCall]

\* Two ledgers agree: the same Result, the same current user, the same
\* balance for every account.
Agree(x, y) ==
    /\ x.ret.value = y.ret.value
    /\ x.current_user = y.current_user
    /\ x.users = y.users

\* C31: the two ledger implementations agree.  From every store and session
\* a sequence of calls can lead to, each of login, create_account, logout,
\* deposit, withdraw, can_withdraw and transfer, made with the same
\* arguments on App and on AppController, returns the same Result and
\* leaves the same current user and the same balances; call by call, that
\* is the agreement of the two on every sequence of calls.
C31_ImplementationsAgree ==
    \A c \in ApiCalls, lag \in Lags :
        Agree(App_call(BeforeCall, c, lag), Ctl_call(BeforeCall, c, lag))

\* What does hold of the two: no balance stored is ever NaN, and they
\* agree on every call whose amount is not NaN, and on every call but
\* transfer whatever the amount.
AgreeOnNumbers ==
    /\ \A u \in DOMAIN users : ~is_nan(users[u])
    /\ \A c \in ApiCalls, lag \in Lags :
            (~is_nan(c.amount) \/ c.op # "transfer")
                => Agree(App_call(BeforeCall, c, lag), Ctl_call(BeforeCall, c, lag))

-----------------------------------------------------------------------------
\* C32: no panic on unwrap.  No execution panics: App::transfer reaches the
\* unwrap of current_user, and the Transfer Enter handler the unwrap of the
\* taken transfer_recipient, only with a value there.  Every call of transfer
\* is made with a recipient captured and a session open, the account of the
\* session always has its row, so the balance lookups for the current user
\* find it, and a transfer that went past its recipient check looks up a
\* recipient that has a row.
C32_NoPanicOnUnwrap ==
    /\ [](pc # "panicked" /\ ret.value # "panic")
    /\ [](~is_none(current_user) => unwrap(current_user) \in DOMAIN users)
    /\ [][ret'.call = "transfer" =>
            /\ ~is_none(transfer_recipient)
            /\ ~is_none(current_user)
            /\ Sender \in DOMAIN users
            /\ (ret'.value = "Ok(true)" => Recipient \in DOMAIN users)]_vars

\* App::transfer went past the unwrap of current_user, called from the
\* Transfer Enter handler past the unwrap of the taken recipient.
C32_Witness ==
    /\ variant = "App"
    /\ pc = "running"
    /\ ret = Call("transfer", "Ok(true)")
    /\ ~is_none(current_user)
    /\ is_none(transfer_recipient)
    /\ current_state = "LoggedIn"

====
